---- MODULE Spec2Model ----
(***************************************************************************)
(* A model of the search / mapping core of fhir-health-interop:            *)
(*   - the wire parameter parser (package utils, query_parser.go),         *)
(*   - the Patient and Observation mappers (package models),               *)
(*   - the Patient service (package service).                              *)
(*                                                                         *)
(* Go strings that the code inspects character by character (query values, *)
(* dates, numbers) are sequences of one-character strings.  Strings that   *)
(* the code only copies or compares with "" are TLA+ strings.  An optional *)
(* (pointer) field is <<>> when nil and <<v>> when it points to v.         *)
(***************************************************************************)
EXTENDS Integers, Sequences, FiniteSets, TLC

VARIABLES call, result, patients, observations, issued, repoLog, dbLog, requests

vars == <<call, result, patients, observations, issued, repoLog, dbLog, requests>>

Nil == <<>>
Some(v) == <<v>>

(***************************************************************************)
(* Bounds of the model.                                                    *)
(***************************************************************************)
\* number of key=value pairs in one query string
MaxParams == 2

\* number of name entries of one wire Patient
MaxNames == 2

\* number of components of one wire Observation
MaxComponents == 1

\* number of rows of the patients table
MaxPatients == 2

\* number of documents of the observations collection
MaxObservations == 2

\* the records created through the services in one behaviour
MaxRecords == 2

(***************************************************************************)
(* Characters and character sequences.                                     *)
(***************************************************************************)
DigitChars == <<"0", "1", "2", "3", "4", "5", "6", "7", "8", "9">>

IsDigit(c) == \E i \in 1..10 : DigitChars[i] = c

DigitVal(c) == (CHOOSE i \in 1..10 : DigitChars[i] = c) - 1

DigitChar(n) == DigitChars[n + 1]

\* strings.HasPrefix
HasPrefix(s, p) == Len(s) >= Len(p) /\ SubSeq(s, 1, Len(p)) = p

\* strings.TrimPrefix
TrimPrefix(s, p) == IF HasPrefix(s, p) THEN SubSeq(s, Len(p) + 1, Len(s)) ELSE s

RECURSIVE StripZeros(_)
StripZeros(ds) ==
    IF ds # <<>> /\ ds[1] = "0" THEN StripZeros(Tail(ds)) ELSE ds

RECURSIVE DigitsToNat(_)
DigitsToNat(ds) ==
    IF ds = <<>> THEN 0
    ELSE 10 * DigitsToNat(SubSeq(ds, 1, Len(ds) - 1)) + DigitVal(ds[Len(ds)])

\* a <= b for two digit sequences of the same length
RECURSIVE LexLeq(_, _)
LexLeq(a, b) ==
    IF a = <<>> THEN TRUE
    ELSE IF DigitVal(a[1]) < DigitVal(b[1]) THEN TRUE
    ELSE IF DigitVal(a[1]) > DigitVal(b[1]) THEN FALSE
    ELSE LexLeq(Tail(a), Tail(b))

\* zero-padded decimal of n in w characters (time.appendInt)
RECURSIVE PadInt(_, _)
PadInt(n, w) ==
    IF w = 0 THEN <<>> ELSE Append(PadInt(n \div 10, w - 1), DigitChar(n % 10))

(***************************************************************************)
(* strconv.Atoi on a 64-bit build.  The value is kept as sign and          *)
(* magnitude, the magnitude as its decimal digits without leading zeros,   *)
(* so that values beyond the range of int are represented exactly.         *)
(***************************************************************************)
MaxInt64Digits ==
    <<"9","2","2","3","3","7","2","0","3","6","8","5","4","7","7","5","8","0","7">>

MinInt64Digits ==
    <<"9","2","2","3","3","7","2","0","3","6","8","5","4","7","7","5","8","0","8">>

AtoiError == [err |-> TRUE, neg |-> FALSE, mag |-> <<>>]

Atoi(s) ==
    IF s = <<>> THEN AtoiError
    ELSE
      LET signed == s[1] = "-" \/ s[1] = "+"
          neg    == s[1] = "-"
          body   == IF signed THEN Tail(s) ELSE s
      IN  IF body = <<>> \/ \E i \in 1..Len(body) : ~IsDigit(body[i])
          THEN AtoiError
          ELSE
            LET mag   == StripZeros(body)
                limit == IF neg THEN MinInt64Digits ELSE MaxInt64Digits
            IN  IF Len(mag) > 19 \/ (Len(mag) = 19 /\ ~LexLeq(mag, limit))
                THEN AtoiError
                ELSE [err |-> FALSE, neg |-> neg /\ mag # <<>>, mag |-> mag]

\* the int an Atoi result denotes; the magnitudes used here have at most 9 digits
IntOf(r) == IF r.neg THEN 0 - DigitsToNat(r.mag) ELSE DigitsToNat(r.mag)

IntPositive(r) == ~r.neg /\ r.mag # <<>>

IntGreaterThan100(r) ==
    ~r.neg /\ (Len(r.mag) > 3 \/ (Len(r.mag) = 3 /\ DigitsToNat(r.mag) > 100))

(***************************************************************************)
(* strconv.ParseBool                                                       *)
(***************************************************************************)
BoolTrueWords ==
    { <<"1">>, <<"t">>, <<"T">>, <<"T","R","U","E">>, <<"t","r","u","e">>,
      <<"T","r","u","e">> }

BoolFalseWords ==
    { <<"0">>, <<"f">>, <<"F">>, <<"F","A","L","S","E">>,
      <<"f","a","l","s","e">>, <<"F","a","l","s","e">> }

\* <<>> on a parse error, <<b>> otherwise
ParseBool(s) ==
    IF s \in BoolTrueWords THEN Some(TRUE)
    ELSE IF s \in BoolFalseWords THEN Some(FALSE)
    ELSE Nil

(***************************************************************************)
(* time.Time values (UTC) and time.Parse / Time.Format for the layouts the *)
(* repository uses.  frac is the fractional second: its digits, at most 9, *)
(* without trailing zeros.                                                 *)
(***************************************************************************)
Date(y, m, d) ==
    [year |-> y, month |-> m, day |-> d, hour |-> 0, min |-> 0, sec |-> 0,
     frac |-> <<>>]

DateTime(y, m, d, hh, mm, ss) ==
    [year |-> y, month |-> m, day |-> d, hour |-> hh, min |-> mm, sec |-> ss,
     frac |-> <<>>]

IsLeap(y) == y % 4 = 0 /\ (y % 100 # 0 \/ y % 400 = 0)

DaysIn(m, y) ==
    IF m = 2 THEN (IF IsLeap(y) THEN 29 ELSE 28)
    ELSE IF m \in {4, 6, 9, 11} THEN 30 ELSE 31

\* getnum(value, fixed): one or two digits, exactly two when fixed
GetNum(s, fixed) ==
    IF s = <<>> \/ ~IsDigit(s[1]) THEN [ok |-> FALSE, n |-> 0, rest |-> s]
    ELSE IF Len(s) < 2 \/ ~IsDigit(s[2])
         THEN IF fixed THEN [ok |-> FALSE, n |-> 0, rest |-> s]
              ELSE [ok |-> TRUE, n |-> DigitVal(s[1]), rest |-> Tail(s)]
    ELSE [ok |-> TRUE, n |-> 10 * DigitVal(s[1]) + DigitVal(s[2]),
          rest |-> SubSeq(s, 3, Len(s))]

RECURSIVE LeadingDigits(_)
LeadingDigits(s) ==
    IF s # <<>> /\ IsDigit(s[1]) THEN <<s[1]>> \o LeadingDigits(Tail(s)) ELSE <<>>

RECURSIVE StripTrailingZeros(_)
StripTrailingZeros(ds) ==
    IF ds # <<>> /\ ds[Len(ds)] = "0"
    THEN StripTrailingZeros(SubSeq(ds, 1, Len(ds) - 1))
    ELSE ds

ParseFailed == [ok |-> FALSE, t |-> Date(0, 1, 1), rest |-> <<>>]

\* the layout elements "2006-01-02" at the head of s: a year of four digits,
\* a month of two digits in 1..12 and a day of two digits (its range is
\* checked when the whole value has been read)
ParseDateElements(s) ==
    IF /\ Len(s) >= 10
       /\ \A i \in {1, 2, 3, 4, 6, 7, 9, 10} : IsDigit(s[i])
       /\ s[5] = "-"
       /\ s[8] = "-"
       /\ DigitsToNat(SubSeq(s, 6, 7)) \in 1..12
    THEN [ok |-> TRUE,
          t |-> Date(DigitsToNat(SubSeq(s, 1, 4)), DigitsToNat(SubSeq(s, 6, 7)),
                     DigitsToNat(SubSeq(s, 9, 10))),
          rest |-> SubSeq(s, 11, Len(s))]
    ELSE ParseFailed

\* the layout elements "15:04:05" at the head of s, added to the date d: an
\* hour of one or two digits below 24, a minute and a second of two digits
\* below 60; a fractional second that the layout does not mention is read as
\* well when the value has one
ParseClockElements(d, s) ==
    LET h    == GetNum(s, FALSE)
        m    == GetNum(Tail(h.rest), TRUE)
        sc   == GetNum(Tail(m.rest), TRUE)
        r    == sc.rest
        frac == LeadingDigits(Tail(r))
        kept == SubSeq(frac, 1, IF Len(frac) > 9 THEN 9 ELSE Len(frac))
    IN  IF /\ h.ok /\ h.n < 24
           /\ h.rest # <<>> /\ h.rest[1] = ":"
           /\ m.ok /\ m.n < 60
           /\ m.rest # <<>> /\ m.rest[1] = ":"
           /\ sc.ok /\ sc.n < 60
        THEN IF Len(r) >= 2 /\ r[1] \in {".", ","} /\ IsDigit(r[2])
             THEN [ok |-> TRUE,
                   t |-> [d EXCEPT !.hour = h.n, !.min = m.n, !.sec = sc.n,
                                   !.frac = StripTrailingZeros(kept)],
                   rest |-> SubSeq(r, Len(frac) + 2, Len(r))]
             ELSE [ok |-> TRUE,
                   t |-> [d EXCEPT !.hour = h.n, !.min = m.n, !.sec = sc.n],
                   rest |-> r]
        ELSE ParseFailed

\* end of the layout: the text left must be exactly tail and the day must exist
ParseFinish(p, tail) ==
    IF p.ok /\ p.rest = tail /\ p.t.day >= 1 /\ p.t.day <= DaysIn(p.t.month, p.t.year)
    THEN Some(p.t)
    ELSE Nil

\* time.Parse("2006-01-02", s)
ParseLayoutDate(s) == ParseFinish(ParseDateElements(s), <<>>)

\* the date, the literal T and the clock
ParseDateTimeElements(s) ==
    LET d == ParseDateElements(s)
    IN  IF d.ok /\ d.rest # <<>> /\ d.rest[1] = "T"
        THEN ParseClockElements(d.t, Tail(d.rest))
        ELSE ParseFailed

\* time.Parse("2006-01-02T15:04:05Z", s): the Z is a literal of the layout
ParseLayoutDateTimeZ(s) == ParseFinish(ParseDateTimeElements(s), <<"Z">>)

\* time.Parse("2006-01-02T15:04:05", s)
ParseLayoutDateTime(s) == ParseFinish(ParseDateTimeElements(s), <<>>)

\* Format with the layout "2006-02-01": day and month exchanged
FormatLayoutDate_DayMonth(t) ==
    PadInt(t.year, 4) \o <<"-">> \o PadInt(t.day, 2) \o <<"-">> \o PadInt(t.month, 2)

\* t.Format("2006-01-02")
FormatLayoutDate(t) ==
    PadInt(t.year, 4) \o <<"-">> \o PadInt(t.month, 2) \o <<"-">> \o PadInt(t.day, 2)

\* t.Format("2006-01-02T15:04:05Z")
FormatLayoutDateTimeZ(t) ==
    FormatLayoutDate(t) \o <<"T">> \o PadInt(t.hour, 2) \o <<":">> \o
    PadInt(t.min, 2) \o <<":">> \o PadInt(t.sec, 2) \o <<"Z">>


(***************************************************************************)
(* The query string: the decoded key=value pairs in the order they appear  *)
(* (url.Values).                                                           *)
(***************************************************************************)
\* url.Values.Get: the first value of the key, "" when the key is absent
RECURSIVE Get(_, _)
Get(q, key) ==
    IF q = <<>> THEN <<>>
    ELSE IF q[1][1] = key THEN q[1][2]
    ELSE Get(Tail(q), key)

ComparisonPrefixes ==
    { <<"g","e">>, <<"l","e">>, <<"g","t">>, <<"l","t">>, <<"e","q">> }

\* the layouts tried in order; the first that parses wins
ParseDateFormats(s) ==
    IF ParseLayoutDate(s) # Nil THEN ParseLayoutDate(s)
    ELSE IF ParseLayoutDateTimeZ(s) # Nil THEN ParseLayoutDateTimeZ(s)
    ELSE ParseLayoutDateTime(s)

parseDateWithPrefix(dateString) ==
    LET hasPrefix == Len(dateString) > 2 /\ SubSeq(dateString, 1, 2) \in ComparisonPrefixes
        prefix    == IF hasPrefix THEN SubSeq(dateString, 1, 2) ELSE <<>>
        rest      == IF hasPrefix THEN SubSeq(dateString, 3, Len(dateString)) ELSE dateString
    IN  [date |-> ParseDateFormats(rest), prefix |-> prefix]

\* the three birth-date filters of PatientSearchParams
NoBirthdate ==
    [BirthDate |-> Nil, BirthDateGreaterThan |-> Nil, BirthDateLessThan |-> Nil]

\* ParseBirthdate with the two range cases of the switch exchanged
ParseBirthdate_RangesSwapped(q) ==
    LET birthdate == Get(q, "birthdate")
        parsed    == parseDateWithPrefix(birthdate)
    IN  IF birthdate = <<>> \/ parsed.date = Nil THEN NoBirthdate
        ELSE IF parsed.prefix \in { <<"g","e">>, <<"g","t">> }
             THEN [NoBirthdate EXCEPT !.BirthDateLessThan = parsed.date]
        ELSE IF parsed.prefix \in { <<"l","e">>, <<"l","t">> }
             THEN [NoBirthdate EXCEPT !.BirthDateGreaterThan = parsed.date]
        ELSE [NoBirthdate EXCEPT !.BirthDate = parsed.date]

ParseBirthdate(q) ==
    LET birthdate == Get(q, "birthdate")
        parsed    == parseDateWithPrefix(birthdate)
    IN  IF birthdate = <<>> \/ parsed.date = Nil THEN NoBirthdate
        ELSE IF parsed.prefix \in { <<"g","e">>, <<"g","t">> }
             THEN [NoBirthdate EXCEPT !.BirthDateGreaterThan = parsed.date]
        ELSE IF parsed.prefix \in { <<"l","e">>, <<"l","t">> }
             THEN [NoBirthdate EXCEPT !.BirthDateLessThan = parsed.date]
        ELSE IF parsed.prefix \in { <<"e","q">>, <<>> }
             THEN [NoBirthdate EXCEPT !.BirthDate = parsed.date]
        ELSE NoBirthdate

\* the two date filters of ObservationSearchParams
NoDate == [DateGreaterThan |-> Nil, DateLessThan |-> Nil]

\* ParseObservationDate with the exact case of the Patient parser added
ParseObservationDate_ExactAsLower(q) ==
    LET date   == Get(q, "date")
        parsed == parseDateWithPrefix(date)
    IN  IF date = <<>> \/ parsed.date = Nil THEN NoDate
        ELSE IF parsed.prefix \in { <<"l","e">>, <<"l","t">> }
             THEN [NoDate EXCEPT !.DateLessThan = parsed.date]
        ELSE [NoDate EXCEPT !.DateGreaterThan = parsed.date]

ParseObservationDate(q) ==
    LET date   == Get(q, "date")
        parsed == parseDateWithPrefix(date)
    IN  IF date = <<>> \/ parsed.date = Nil THEN NoDate
        ELSE IF parsed.prefix \in { <<"g","e">>, <<"g","t">> }
             THEN [NoDate EXCEPT !.DateGreaterThan = parsed.date]
        ELSE IF parsed.prefix \in { <<"l","e">>, <<"l","t">> }
             THEN [NoDate EXCEPT !.DateLessThan = parsed.date]
        ELSE NoDate

\* ParseActive with the error of ParseBool dropped
ParseActive_ErrorIgnored(q) ==
    LET active == Get(q, "active")
    IN  IF active = <<>> THEN Nil
        ELSE IF ParseBool(active) = Nil THEN Some(FALSE) ELSE ParseBool(active)

ParseActive(q) ==
    LET active == Get(q, "active")
    IN  IF active = <<>> THEN Nil ELSE ParseBool(active)

\* _sort: a leading "-" means descending
ParseSort(q) ==
    LET sortBy == Get(q, "_sort")
    IN  IF sortBy = <<>> THEN [SortBy |-> <<>>, SortOrder |-> ""]
        ELSE IF HasPrefix(sortBy, <<"-">>)
             THEN [SortBy |-> TrimPrefix(sortBy, <<"-">>), SortOrder |-> "desc"]
             ELSE [SortBy |-> sortBy, SortOrder |-> "asc"]

DefaultLimit == 10

MaximumLimit == 100

DefaultOffset == 0

\* _count
ParseLimit(q) ==
    LET limit    == Get(q, "_count")
        limitInt == Atoi(limit)
    IN  IF limit # <<>> /\ ~limitInt.err /\ IntPositive(limitInt)
        THEN IF IntGreaterThan100(limitInt) THEN MaximumLimit ELSE IntOf(limitInt)
        ELSE DefaultLimit

\* _offset
ParseOffset(q) ==
    LET offset    == Get(q, "_offset")
        offsetInt == Atoi(offset)
    IN  IF offset # <<>> /\ ~offsetInt.err /\ ~offsetInt.neg
        THEN IntOf(offsetInt)
        ELSE DefaultOffset

\* patient: a bare id or Patient/{id}
ParsePatientReference(q) ==
    LET patientID == Get(q, "patient")
        patientPrefix == <<"P","a","t","i","e","n","t","/">>
    IN  IF patientID = <<>> THEN <<>>
        ELSE IF HasPrefix(patientID, patientPrefix)
             THEN TrimPrefix(patientID, patientPrefix)
             ELSE patientID

\* what a parser returns: the pointer to the parameters and the error
ParseReturn(params) == [params |-> Some(params), err |-> Nil]

ParsePatientSearchParams(q) ==
    ParseReturn(
      [Name                 |-> Get(q, "name"),
       FamilyName           |-> Get(q, "family"),
       GivenName            |-> Get(q, "given"),
       Gender               |-> Get(q, "gender"),
       BirthDate            |-> ParseBirthdate(q).BirthDate,
       BirthDateGreaterThan |-> ParseBirthdate(q).BirthDateGreaterThan,
       BirthDateLessThan    |-> ParseBirthdate(q).BirthDateLessThan,
       Active               |-> ParseActive(q),
       SortBy               |-> ParseSort(q).SortBy,
       SortOrder            |-> ParseSort(q).SortOrder,
       Limit                |-> ParseLimit(q),
       Offset               |-> ParseOffset(q)])

ParseObservationSearchParams(q) ==
    ParseReturn(
      [PatientID       |-> ParsePatientReference(q),
       Code            |-> Get(q, "code"),
       Category        |-> Get(q, "category"),
       Status          |-> Get(q, "status"),
       DateGreaterThan |-> ParseObservationDate(q).DateGreaterThan,
       DateLessThan    |-> ParseObservationDate(q).DateLessThan,
       SortBy          |-> ParseSort(q).SortBy,
       SortOrder       |-> ParseSort(q).SortOrder,
       Limit           |-> ParseLimit(q),
       Offset          |-> ParseOffset(q)])


(***************************************************************************)
(* Query strings given to the parsers.                                     *)
(***************************************************************************)
CalendarDates == { Date(1990, 1, 1), Date(2000, 2, 29) }

DatePrefixes == ComparisonPrefixes \cup { <<>> }

\* date values that parse: the prefix, the text after it and the time it denotes
GoodDateInputs ==
    { [prefix |-> pre, text |-> FormatLayoutDate(Date(1990, 1, 1)),
       time |-> Date(1990, 1, 1)] : pre \in DatePrefixes } \cup
    { [prefix |-> pre, text |-> FormatLayoutDate(Date(2000, 2, 29)),
       time |-> Date(2000, 2, 29)] : pre \in { <<>> } } \cup
    { [prefix |-> <<"g","t">>,
       text |-> <<"1","9","9","0","-","0","1","-","0","1","T","1","3",":","4","5",":","1","0","Z">>,
       time |-> DateTime(1990, 1, 1, 13, 45, 10)],
      [prefix |-> <<>>,
       text |-> <<"1","9","9","0","-","0","1","-","0","1","T","1","3",":","4","5",":","1","0">>,
       time |-> DateTime(1990, 1, 1, 13, 45, 10)],
      [prefix |-> <<"e","q">>,
       text |-> <<"1","9","9","0","-","0","1","-","0","1","T","5",":","0","0",":","0","0","Z">>,
       time |-> DateTime(1990, 1, 1, 5, 0, 0)] }

GoodDateValues == { g.prefix \o g.text : g \in GoodDateInputs }

\* date values in none of the three layouts
BadDateValues ==
    { <<"g","e">>,
      <<"1","9","9","0","-","0","2","-","3","0">>,
      <<"n","e","1","9","9","0","-","0","1","-","0","1">>,
      <<"l","e","1","9","9","0","-","0","1","-","0","1","x">> }

DateValues == GoodDateValues \cup BadDateValues \cup { <<>> }

\* _count values that are decimal integers: the text, and where N lies
\*   "low" N <= 0, "in" 1 <= N <= 100 (n is N), "over" N > 100
DecimalCounts ==
    { [text |-> <<"0","0","7">>, range |-> "in", n |-> 7],
      [text |-> <<"1","0","0">>, range |-> "in", n |-> 100],
      [text |-> <<"1","0","1">>, range |-> "over", n |-> 101],
      [text |-> MaxInt64Digits, range |-> "over", n |-> 0],
      [text |-> MinInt64Digits, range |-> "over", n |-> 0],
      [text |-> <<"0">>, range |-> "low", n |-> 0],
      [text |-> <<"-","3">>, range |-> "low", n |-> -3] }

\* _count values that are no decimal integer
NonNumericCounts == { <<"a","b","c">> }

CountValues == { c.text : c \in DecimalCounts } \cup NonNumericCounts \cup { <<>> }

\* _offset values: integers N >= 0 (n is N) and the values that are ignored
GoodOffsets ==
    { [text |-> <<"2","0">>, n |-> 20] }

BadOffsets == { <<"-","1">>, <<"a","b","c">> }

OffsetValues == { o.text : o \in GoodOffsets } \cup BadOffsets

\* active values: booleans (b is the value) and the values that are ignored
GoodActives ==
    { [text |-> <<"t","r","u","e">>, b |-> TRUE], [text |-> <<"0">>, b |-> FALSE] }

BadActives == { <<"y","e","s">> }

ActiveValues == { a.text : a \in GoodActives } \cup BadActives

SortValues == { <<"n","a","m","e">>, <<"-","n","a","m","e">> }

PatientReferenceValues ==
    { <<"a","b","c">>, <<"P","a","t","i","e","n","t","/","a","b","c">>,
      <<"P","a","t","i","e","n","t","/">> }

TextValues == { <<"S","m","i","t","h">>, <<>> }

PairsOf(key, values) == { <<key, v>> : v \in values }

CommonPairs ==
    PairsOf("_sort", SortValues) \cup PairsOf("_count", CountValues) \cup
    PairsOf("_offset", OffsetValues) \cup PairsOf("unknown", { <<"x">> })

\* every string filter has a value and the empty value
PatientPairs ==
    PairsOf("name", TextValues) \cup PairsOf("family", { <<"S","m","i","t","h">>, <<>> }) \cup
    PairsOf("given", { <<"J","o">>, <<>> }) \cup
    PairsOf("gender", { <<"m","a","l","e">>, <<>> }) \cup
    PairsOf("birthdate", DateValues) \cup PairsOf("active", ActiveValues) \cup
    CommonPairs

ObservationPairs ==
    PairsOf("patient", PatientReferenceValues \cup { <<>> }) \cup
    PairsOf("code", { <<"8","4","8","0","-","6">>, <<>> }) \cup
    PairsOf("category", TextValues) \cup
    PairsOf("status", { <<"f","i","n","a","l">>, <<>> }) \cup
    PairsOf("date", DateValues) \cup CommonPairs

\* the query strings of at most MaxParams pairs
QueriesOf(pairs) == UNION { [1..n -> pairs] : n \in 0..MaxParams }

(***************************************************************************)
(* The state: the open call and what it returns; the rows of the patients  *)
(* table, the documents of the observations collection and the number of   *)
(* ids each store has generated; the repository calls and the storage      *)
(* calls made by the open call; the requests that run concurrently, each   *)
(* with its own locals and its position in its code.                       *)
(***************************************************************************)
NoCall == [op |-> "none", arg |-> <<>>]

Init ==
    /\ call = NoCall
    /\ result = <<>>
    /\ patients = <<>>
    /\ observations = <<>>
    /\ issued = [patients |-> 0, observations |-> 0]
    /\ repoLog = <<>>
    /\ dbLog = <<>>
    /\ requests = <<>>

\* GET /Patient?...  (one request at a time: a request starts when none is open)
ParsePatientSearchParamsCall ==
    /\ call = NoCall
    /\ UNCHANGED requests
    /\ \E q \in QueriesOf(PatientPairs) :
        /\ call' = [op |-> "ParsePatientSearchParams", arg |-> q]
        /\ result' = ParsePatientSearchParams(q)
        /\ UNCHANGED <<patients, observations, issued, repoLog, dbLog>>

\* GET /Observation?...
ParseObservationSearchParamsCall ==
    /\ call = NoCall
    /\ UNCHANGED requests
    /\ \E q \in QueriesOf(ObservationPairs) :
        /\ call' = [op |-> "ParseObservationSearchParams", arg |-> q]
        /\ result' = ParseObservationSearchParams(q)
        /\ UNCHANGED <<patients, observations, issued, repoLog, dbLog>>

\* the request is answered; its values are dropped
Return ==
    /\ call # NoCall
    /\ UNCHANGED requests
    /\ call' = NoCall
    /\ result' = <<>>
    /\ repoLog' = <<>>
    /\ dbLog' = <<>>
    /\ UNCHANGED <<patients, observations, issued>>

NextParser == ParsePatientSearchParamsCall \/ ParseObservationSearchParamsCall \/ Return

SpecParser == Init /\ [][NextParser]_vars


(***************************************************************************)
(* The Patient mapper (models.PatientMapper).                              *)
(*                                                                         *)
(* Domain Patient: ID, IdentifierSystem, IdentifierValue, FamilyName,      *)
(* GivenName and Gender are strings, Active a boolean, BirthDate an        *)
(* optional time, CreatedAt and UpdatedAt instants (0 is the zero time).   *)
(* Wire Patient (fhir.Patient): Id, Active, Gender and BirthDate are       *)
(* optional, Name is a sequence of [Family (optional), Given (sequence)],  *)
(* Identifier a sequence of [System, Value] (both optional).  A wire       *)
(* gender is a value of the enumeration fhir.AdministrativeGender; the Go  *)
(* type also holds integers that are none of its four constants.           *)
(***************************************************************************)
AdministrativeGenderMale == "male"

AdministrativeGenderFemale == "female"

AdministrativeGenderOther == "other"

AdministrativeGenderUnknown == "unknown"

\* a value of the Go type that is none of the four constants
AdministrativeGenderOutOfEnum == "out-of-enum"

\* mapGenderToFHIR with the default case returning Other
mapGenderToFHIR_DefaultOther(gender) ==
    IF gender = "male" THEN AdministrativeGenderMale
    ELSE IF gender = "female" THEN AdministrativeGenderFemale
    ELSE AdministrativeGenderOther

mapGenderToFHIR(gender) ==
    IF gender = "male" THEN AdministrativeGenderMale
    ELSE IF gender = "female" THEN AdministrativeGenderFemale
    ELSE IF gender = "other" THEN AdministrativeGenderOther
    ELSE AdministrativeGenderUnknown

\* mapGenderFromFHIR with the results of the first two cases exchanged
mapGenderFromFHIR_CasesExchanged(gender) ==
    IF gender = AdministrativeGenderMale THEN "female"
    ELSE IF gender = AdministrativeGenderFemale THEN "male"
    ELSE IF gender = AdministrativeGenderOther THEN "other"
    ELSE "unknown"

mapGenderFromFHIR(gender) ==
    IF gender = AdministrativeGenderMale THEN "male"
    ELSE IF gender = AdministrativeGenderFemale THEN "female"
    ELSE IF gender = AdministrativeGenderOther THEN "other"
    ELSE "unknown"

\* ToFHIR: the gender, left out when the domain gender is empty
PatientGenderToFHIR(patient) ==
    IF patient.Gender # "" THEN Some(mapGenderToFHIR(patient.Gender)) ELSE Nil

\* ToFHIR: the birth date as YYYY-MM-DD
PatientBirthDateToFHIR(patient) ==
    IF patient.BirthDate # Nil THEN Some(FormatLayoutDate(patient.BirthDate[1])) ELSE Nil

\* the identifier emitted when either part is present
PatientIdentifierToFHIR_Either(patient) ==
    IF patient.IdentifierSystem # "" \/ patient.IdentifierValue # ""
    THEN << [System |-> Some(patient.IdentifierSystem),
             Value  |-> Some(patient.IdentifierValue)] >>
    ELSE <<>>

\* ToFHIR: the identifier
PatientIdentifierToFHIR(patient) ==
    IF patient.IdentifierSystem # "" /\ patient.IdentifierValue # ""
    THEN << [System |-> Some(patient.IdentifierSystem),
             Value  |-> Some(patient.IdentifierValue)] >>
    ELSE <<>>

PatientToFHIR(patient) ==
    [Id         |-> Some(patient.ID),
     Active     |-> Some(patient.Active),
     Name       |-> << [Family |-> Some(patient.FamilyName),
                        Given  |-> << patient.GivenName >>] >>,
     Gender     |-> PatientGenderToFHIR(patient),
     BirthDate  |-> PatientBirthDateToFHIR(patient),
     Identifier |-> PatientIdentifierToFHIR(patient)]

\* the zero value of models.Patient
ZeroPatient ==
    [ID |-> "", IdentifierSystem |-> "", IdentifierValue |-> "", Active |-> FALSE,
     FamilyName |-> "", GivenName |-> "", Gender |-> "", BirthDate |-> Nil,
     CreatedAt |-> 0, UpdatedAt |-> 0]

PatientFromFHIR(fhirPatient) ==
    [ZeroPatient EXCEPT
       !.ID = IF fhirPatient.Id # Nil THEN fhirPatient.Id[1] ELSE "",
       !.Active = IF fhirPatient.Active # Nil THEN fhirPatient.Active[1] ELSE FALSE,
       !.FamilyName =
           IF Len(fhirPatient.Name) > 0 /\ fhirPatient.Name[1].Family # Nil
           THEN fhirPatient.Name[1].Family[1] ELSE "",
       !.GivenName =
           IF Len(fhirPatient.Name) > 0 /\ Len(fhirPatient.Name[1].Given) > 0
           THEN fhirPatient.Name[1].Given[1] ELSE "",
       !.Gender =
           IF fhirPatient.Gender # Nil THEN mapGenderFromFHIR(fhirPatient.Gender[1]) ELSE "",
       !.BirthDate =
           IF fhirPatient.BirthDate # Nil THEN ParseLayoutDate(fhirPatient.BirthDate[1])
           ELSE Nil,
       !.IdentifierSystem =
           IF Len(fhirPatient.Identifier) > 0 /\ fhirPatient.Identifier[1].System # Nil
           THEN fhirPatient.Identifier[1].System[1] ELSE "",
       !.IdentifierValue =
           IF Len(fhirPatient.Identifier) > 0 /\ fhirPatient.Identifier[1].Value # Nil
           THEN fhirPatient.Identifier[1].Value[1] ELSE ""]

(***************************************************************************)
(* Patients given to the mapper.                                           *)
(***************************************************************************)
DomainGenders == {"male", "female", "other", "unknown", "", "invalid"}

\* domain birth dates: calendar dates, and a time that is not at midnight
DomainBirthDates ==
    { Nil, Some(Date(1990, 3, 5)), Some(Date(2000, 2, 29)),
      Some(DateTime(1990, 1, 1, 13, 45, 10)) }

DomainPatients ==
    [ID : {"", "p1"}, IdentifierSystem : {"", "urn:mrn"}, IdentifierValue : {"", "12345"},
     Active : BOOLEAN, FamilyName : {"", "Smith"}, GivenName : {"", "John"},
     Gender : DomainGenders, BirthDate : DomainBirthDates,
     CreatedAt : {0, 7}, UpdatedAt : {7}]

WireGenders ==
    { AdministrativeGenderMale, AdministrativeGenderFemale, AdministrativeGenderOther,
      AdministrativeGenderUnknown, AdministrativeGenderOutOfEnum }

WireNameEntries ==
    { [Family |-> Some("Smith"), Given |-> << "John" >>],
      [Family |-> Nil, Given |-> <<>>],
      [Family |-> Some(""), Given |-> << "Ann", "Q" >>] }

WireNames == UNION { [1..n -> WireNameEntries] : n \in 0..MaxNames }

WireBirthDates ==
    { Nil, Some(FormatLayoutDate(Date(1990, 3, 5))),
      Some(<<"1","9","9","0","-","3","-","5">>) }

WireIdentifiers ==
    { <<>>,
      << [System |-> Some("urn:mrn"), Value |-> Some("12345")] >>,
      << [System |-> Some("urn:mrn"), Value |-> Nil] >>,
      << [System |-> Nil, Value |-> Some("12345")] >>,
      << [System |-> Some("urn:mrn"), Value |-> Some("12345")],
         [System |-> Some("urn:ssn"), Value |-> Some("999")] >> }

WirePatients ==
    [Id : {Nil, Some(""), Some("p1")}, Active : {Nil, Some(TRUE), Some(FALSE)},
     Name : WireNames, Gender : {Nil} \cup { Some(g) : g \in WireGenders },
     BirthDate : WireBirthDates, Identifier : WireIdentifiers]

\* a service or handler maps a domain Patient to the wire
PatientToFHIRCall ==
    /\ call = NoCall
    /\ UNCHANGED requests
    /\ \E patient \in DomainPatients :
        /\ call' = [op |-> "PatientToFHIR", arg |-> patient]
        /\ result' = PatientToFHIR(patient)
        /\ UNCHANGED <<patients, observations, issued, repoLog, dbLog>>

\* a service maps a wire Patient to the domain
PatientFromFHIRCall ==
    /\ call = NoCall
    /\ UNCHANGED requests
    /\ \E fhirPatient \in WirePatients :
        /\ call' = [op |-> "PatientFromFHIR", arg |-> fhirPatient]
        /\ result' = PatientFromFHIR(fhirPatient)
        /\ UNCHANGED <<patients, observations, issued, repoLog, dbLog>>

NextPatientMapper == PatientToFHIRCall \/ PatientFromFHIRCall \/ Return

SpecPatientMapper == Init /\ [][NextPatientMapper]_vars

(***************************************************************************)
(* The Observation mapper (models.ObservationMapper), inbound.             *)
(*                                                                         *)
(* Wire Observation (fhir.Observation): Id, Subject, EffectiveDateTime,    *)
(* Issued, ValueQuantity and ValueString are optional; Status is a value   *)
(* of the enumeration fhir.ObservationStatus; Category is a sequence of    *)
(* [Coding], Code is [Coding], a coding is [System, Code, Display] (all    *)
(* optional); Component is a sequence of [Code, ValueQuantity,             *)
(* ValueString].  A quantity is [Value (optional json.Number), Unit].      *)
(***************************************************************************)
ObservationStatusRegistered == "registered"

ObservationStatusPreliminary == "preliminary"

ObservationStatusFinal == "final"

ObservationStatusAmended == "amended"

\* the constants of the enumeration that the mapper does not name, and a
\* value of the Go type that is no constant of it
OtherObservationStatuses ==
    {"corrected", "cancelled", "entered-in-error", "unknown", "out-of-enum"}

\* the status switch with the default changed to registered
ObservationStatusFromFHIR_DefaultRegistered(status) ==
    IF status = ObservationStatusPreliminary THEN "preliminary"
    ELSE IF status = ObservationStatusFinal THEN "final"
    ELSE IF status = ObservationStatusAmended THEN "amended"
    ELSE "registered"

\* FromFHIR: the status, final unless one of the four cases matches
ObservationStatusFromFHIR(status) ==
    IF status = ObservationStatusRegistered THEN "registered"
    ELSE IF status = ObservationStatusPreliminary THEN "preliminary"
    ELSE IF status = ObservationStatusFinal THEN "final"
    ELSE IF status = ObservationStatusAmended THEN "amended"
    ELSE "final"

\* json.Number.Float64 for plain decimals (sign, digits, optional fraction):
\* <<>> on a parse error, else the value as sign, integer digits and
\* fraction digits.  The values given to the mapper are plain decimals or
\* text that strconv.ParseFloat rejects in every syntax it knows.
ParseFloat(s) ==
    IF s = <<>> THEN Nil
    ELSE
      LET signed == s[1] = "-" \/ s[1] = "+"
          body   == IF signed THEN Tail(s) ELSE s
          whole  == LeadingDigits(body)
          after  == SubSeq(body, Len(whole) + 1, Len(body))
          frac   == IF after # <<>> /\ after[1] = "." THEN LeadingDigits(Tail(after)) ELSE <<>>
          used   == Len(whole) + (IF after # <<>> /\ after[1] = "." THEN 1 + Len(frac) ELSE 0)
      IN  IF used = Len(body) /\ Len(whole) + Len(frac) > 0
          THEN Some([neg  |-> s[1] = "-",
                     int  |-> StripZeros(whole),
                     frac |-> StripTrailingZeros(frac)])
          ELSE Nil

\* the zone of the layout element "Z07:00": Z, or a sign, two digits, a
\* colon and two digits; <<>> when the text is no zone, else the offset in
\* minutes
ParseZone(s) ==
    IF s = <<"Z">> THEN Some(0)
    ELSE IF /\ Len(s) = 6
            /\ s[1] \in {"+", "-"}
            /\ \A i \in {2, 3, 5, 6} : IsDigit(s[i])
            /\ s[4] = ":"
            /\ DigitsToNat(SubSeq(s, 2, 3)) <= 24
            /\ DigitsToNat(SubSeq(s, 5, 6)) <= 60
         THEN LET minutes == 60 * DigitsToNat(SubSeq(s, 2, 3)) + DigitsToNat(SubSeq(s, 5, 6))
              IN  Some(IF s[1] = "-" THEN 0 - minutes ELSE minutes)
         ELSE Nil

\* time.Parse(time.RFC3339, s): <<>> on an error, else the clock reading and
\* the offset of its zone
ParseLayoutRFC3339(s) ==
    LET p == ParseDateTimeElements(s)
    IN  IF p.ok /\ ParseZone(p.rest) # Nil /\ ParseFinish(p, p.rest) # Nil
        THEN Some([t |-> p.t, zone |-> ParseZone(p.rest)[1]])
        ELSE Nil

PatientReferencePrefix == <<"P","a","t","i","e","n","t","/">>

\* FromFHIR: the patient id of the subject reference
ObservationPatientIDFromFHIR(fhirObservation) ==
    IF fhirObservation.Subject # Nil /\ fhirObservation.Subject[1].Reference # Nil
    THEN LET reference == fhirObservation.Subject[1].Reference[1]
         IN  IF Len(reference) > 8 /\ SubSeq(reference, 1, 8) = PatientReferencePrefix
             THEN SubSeq(reference, 9, Len(reference))
             ELSE <<>>
    ELSE <<>>

\* the value with the string copied whether or not there is a quantity
ValueFromFHIR_StringAlways(holder) ==
    [ValueQuantity |-> IF holder.ValueQuantity # Nil /\ holder.ValueQuantity[1].Value # Nil
                       THEN ParseFloat(holder.ValueQuantity[1].Value[1]) ELSE Nil,
     ValueUnit     |-> IF holder.ValueQuantity # Nil /\ holder.ValueQuantity[1].Value # Nil
                          /\ holder.ValueQuantity[1].Unit # Nil
                       THEN holder.ValueQuantity[1].Unit[1] ELSE "",
     ValueString   |-> IF holder.ValueString # Nil THEN holder.ValueString[1] ELSE ""]

\* FromFHIR: the value of the observation or of a component: the quantity
\* when it has a number, else the string
ValueFromFHIR(holder) ==
    IF holder.ValueQuantity # Nil /\ holder.ValueQuantity[1].Value # Nil
    THEN [ValueQuantity |-> ParseFloat(holder.ValueQuantity[1].Value[1]),
          ValueUnit     |-> IF holder.ValueQuantity[1].Unit # Nil
                            THEN holder.ValueQuantity[1].Unit[1] ELSE "",
          ValueString   |-> ""]
    ELSE [ValueQuantity |-> Nil,
          ValueUnit     |-> "",
          ValueString   |-> IF holder.ValueString # Nil THEN holder.ValueString[1] ELSE ""]

\* FromFHIR: the code, system and display of the first coding
CodingFromFHIR(concept) ==
    IF Len(concept.Coding) > 0
    THEN LET coding == concept.Coding[1]
         IN  [Code        |-> IF coding.Code # Nil THEN coding.Code[1] ELSE "",
              CodeSystem  |-> IF coding.System # Nil THEN coding.System[1] ELSE "",
              CodeDisplay |-> IF coding.Display # Nil THEN coding.Display[1] ELSE ""]
    ELSE [Code |-> "", CodeSystem |-> "", CodeDisplay |-> ""]

\* FromFHIR: one component
ComponentFromFHIR(fhirComponent) ==
    [Code          |-> CodingFromFHIR(fhirComponent.Code).Code,
     CodeSystem    |-> CodingFromFHIR(fhirComponent.Code).CodeSystem,
     CodeDisplay   |-> CodingFromFHIR(fhirComponent.Code).CodeDisplay,
     ValueQuantity |-> ValueFromFHIR(fhirComponent).ValueQuantity,
     ValueUnit     |-> ValueFromFHIR(fhirComponent).ValueUnit,
     ValueString   |-> ValueFromFHIR(fhirComponent).ValueString]

\* now holds the three readings of time.Now() taken while the record is
\* built, in the order of the fields of the composite literal
ObservationFromFHIR(fhirObservation, now) ==
    [ID            |-> IF fhirObservation.Id # Nil THEN fhirObservation.Id[1] ELSE <<>>,
     PatientID     |-> ObservationPatientIDFromFHIR(fhirObservation),
     Status        |-> ObservationStatusFromFHIR(fhirObservation.Status),
     Category      |-> IF /\ Len(fhirObservation.Category) > 0
                          /\ Len(fhirObservation.Category[1].Coding) > 0
                          /\ fhirObservation.Category[1].Coding[1].Code # Nil
                       THEN fhirObservation.Category[1].Coding[1].Code[1] ELSE "",
     Code          |-> CodingFromFHIR(fhirObservation.Code).Code,
     CodeSystem    |-> CodingFromFHIR(fhirObservation.Code).CodeSystem,
     CodeDisplay   |-> CodingFromFHIR(fhirObservation.Code).CodeDisplay,
     ValueQuantity |-> ValueFromFHIR(fhirObservation).ValueQuantity,
     ValueUnit     |-> ValueFromFHIR(fhirObservation).ValueUnit,
     ValueString   |-> ValueFromFHIR(fhirObservation).ValueString,
     EffectiveDate |-> IF fhirObservation.EffectiveDateTime # Nil
                       THEN ParseLayoutDateTimeZ(fhirObservation.EffectiveDateTime[1])
                       ELSE Nil,
     IssuedDate    |-> IF /\ fhirObservation.Issued # Nil
                          /\ ParseLayoutRFC3339(fhirObservation.Issued[1]) # Nil
                       THEN [parsed |-> ParseLayoutRFC3339(fhirObservation.Issued[1]),
                             instant |-> 0]
                       ELSE [parsed |-> Nil, instant |-> now[1]],
     Components    |-> [i \in 1..Len(fhirObservation.Component) |->
                           ComponentFromFHIR(fhirObservation.Component[i])],
     CreatedAt     |-> now[2],
     UpdatedAt     |-> now[3]]

(***************************************************************************)
(* Observations given to the mapper.                                       *)
(***************************************************************************)
WireObservationStatuses ==
    { ObservationStatusRegistered, ObservationStatusPreliminary, ObservationStatusFinal,
      ObservationStatusAmended } \cup OtherObservationStatuses

LoincCoding ==
    [System |-> Some("http://loinc.org"), Code |-> Some("8480-6"), Display |-> Some("Systolic")]

WireConcepts == { [Coding |-> <<>>], [Coding |-> << LoincCoding >>] }

WireSubjects ==
    { Nil,
      Some([Reference |-> Some(PatientReferencePrefix \o <<"a","b","c">>)]),
      Some([Reference |-> Some(PatientReferencePrefix)]) }

WireQuantities ==
    { Nil,
      Some([Value |-> Some(<<"9","8",".","6">>), Unit |-> Some("degF")]),
      Some([Value |-> Nil, Unit |-> Some("degF")]),
      Some([Value |-> Some(<<"a","b","c">>), Unit |-> Nil]) }

WireValueStrings == { Nil, Some("positive") }

WireComponentEntries ==
    { [Code |-> [Coding |-> << LoincCoding >>],
       ValueQuantity |-> Some([Value |-> Some(<<"1","2","0">>), Unit |-> Some("mmHg")]),
       ValueString |-> Some("high")] }

WireComponents == UNION { [1..n -> WireComponentEntries] : n \in 0..MaxComponents }

WireEffectiveDateTimes ==
    { Nil, Some(FormatLayoutDateTimeZ(DateTime(2024, 1, 15, 10, 30, 0))),
      Some(FormatLayoutDate(Date(2024, 1, 15))) }

WireIssued ==
    { Nil,
      Some(<<"2","0","2","4","-","0","1","-","1","5","T","1","0",":","3","0",":","0","0","+","0","2",":","0","0">>),
      Some(<<"y","e","s","t","e","r","d","a","y">>) }

WireObservations ==
    [Id : {Nil, Some(<<"o","b","s","-","1">>)}, Status : WireObservationStatuses,
     Category : { <<>>, << [Coding |-> << LoincCoding >>] >> },
     Code : WireConcepts, Subject : WireSubjects,
     EffectiveDateTime : WireEffectiveDateTimes, Issued : WireIssued,
     ValueQuantity : WireQuantities, ValueString : WireValueStrings,
     Component : WireComponents]

\* the three readings of the clock during one call: the clock does not run
\* backwards, and it may or may not advance between two readings
Instants == { <<1, 1, 1>>, <<1, 2, 2>> }

\* a service maps a wire Observation to the domain
ObservationFromFHIRCall ==
    /\ call = NoCall
    /\ UNCHANGED requests
    /\ \E fhirObservation \in WireObservations, now \in Instants :
        /\ call' = [op |-> "ObservationFromFHIR", arg |-> fhirObservation]
        /\ result' = ObservationFromFHIR(fhirObservation, now)
        /\ UNCHANGED <<patients, observations, issued, repoLog, dbLog>>

NextObservationMapper == ObservationFromFHIRCall \/ Return

SpecObservationMapper == Init /\ [][NextObservationMapper]_vars

(***************************************************************************)
(* The Patient repository (repository.PostgresPatientRepository) and the   *)
(* patients table behind it.                                               *)
(*                                                                         *)
(* A row of the table has the fields of models.Patient.  The texts that a  *)
(* query inspects (names, gender, sort field) are sequences of characters. *)
(***************************************************************************)
UpperLetters ==
    <<"A","B","C","D","E","F","G","H","I","J","K","L","M",
      "N","O","P","Q","R","S","T","U","V","W","X","Y","Z">>

LowerLetters ==
    <<"a","b","c","d","e","f","g","h","i","j","k","l","m",
      "n","o","p","q","r","s","t","u","v","w","x","y","z">>

\* strings.ToLower, on the letters A to Z
ToLower(s) ==
    [i \in 1..Len(s) |->
        IF \E k \in 1..26 : UpperLetters[k] = s[i]
        THEN LowerLetters[CHOOSE k \in 1..26 : UpperLetters[k] = s[i]]
        ELSE s[i]]

\* LOWER(column) of PostgreSQL, on the letters A to Z
PgLower(s) == ToLower(s)

\* text LIKE pattern: % stands for any text, _ for any one character, and a
\* backslash makes the character after it stand for itself
RECURSIVE PgLike(_, _)
PgLike(text, pattern) ==
    IF pattern = <<>> THEN text = <<>>
    ELSE IF pattern[1] = "%"
         THEN PgLike(text, Tail(pattern)) \/ (text # <<>> /\ PgLike(Tail(text), pattern))
    ELSE IF pattern[1] = "_"
         THEN text # <<>> /\ PgLike(Tail(text), Tail(pattern))
    ELSE IF pattern[1] = "\\"
         THEN /\ Len(pattern) >= 2
              /\ text # <<>> /\ text[1] = pattern[2]
              /\ PgLike(Tail(text), Tail(Tail(pattern)))
    ELSE text # <<>> /\ text[1] = pattern[1] /\ PgLike(Tail(text), Tail(pattern))

\* the order of the characters in the collation of the database
CharOrder ==
    <<" ","%","-","0","1","2","3","4","5","6","7","8","9">> \o UpperLetters \o
    <<"\\","_">> \o LowerLetters

CharRank(c) == CHOOSE k \in 1..Len(CharOrder) : CharOrder[k] = c

\* a < b for two texts
RECURSIVE TextLess(_, _)
TextLess(a, b) ==
    IF b = <<>> THEN FALSE
    ELSE IF a = <<>> THEN TRUE
    ELSE IF a[1] = b[1] THEN TextLess(Tail(a), Tail(b))
    ELSE CharRank(a[1]) < CharRank(b[1])

\* a < b for two sequences of integers of the same length
RECURSIVE IntsLess(_, _)
IntsLess(a, b) ==
    IF a = <<>> THEN FALSE
    ELSE IF a[1] = b[1] THEN IntsLess(Tail(a), Tail(b))
    ELSE a[1] < b[1]

\* a < b for two times without fractional seconds
TimeLess(a, b) ==
    IntsLess(<<a.year, a.month, a.day, a.hour, a.min, a.sec>>,
             <<b.year, b.month, b.day, b.hour, b.min, b.sec>>)

TimeLeq(a, b) == ~TimeLess(b, a)

\* the WHERE conditions that Search appends, each with its one parameter
SqlName == "(LOWER(given_name) LIKE $n OR LOWER(family_name) LIKE $n)"

SqlFamilyName == "LOWER(family_name) LIKE $n"

SqlGivenName == "LOWER(given_name) LIKE $n"

SqlGender == "gender = $n"

SqlBirthDate == "birth_date = $n"

SqlBirthDateGreaterThan == "birth_date >= $n"

SqlBirthDateLessThan == "birth_date <= $n"

SqlActive == "active = $n"

\* the pattern of a name filter
LikeParameter(text) == <<"%">> \o ToLower(text) \o <<"%">>

\* baseQuery += ` AND ...$parameterIndex`; queryParameters = append(...);
\* parameterIndex++  (parameterIndex is Len(args) + 1 throughout)
AddCondition(query, present, sql, parameter) ==
    IF present
    THEN [query EXCEPT !.where = Append(@, [sql |-> sql, index |-> Len(query.args) + 1]),
                       !.args = Append(@, parameter)]
    ELSE query

validSortFields ==
    { <<"n","a","m","e">>, <<"f","a","m","i","l","y","_","n","a","m","e">>, <<"g","i","v","e","n","_","n","a","m","e">>, <<"b","i","r","t","h","d","a","t","e">>, <<"g","e","n","d","e","r">>, <<"c","r","e","a","t","e","d","_","a","t">> }

\* the sort column with every allowed field mapped to itself
PatientSortColumn_NoAlias(searchParams) ==
    IF searchParams.SortBy # <<>> /\ searchParams.SortBy \in validSortFields
    THEN searchParams.SortBy
    ELSE <<"c","r","e","a","t","e","d","_","a","t">>

\* the sort column taken from the parameters without the allowlist
PatientSortColumn_Unchecked(searchParams) ==
    IF searchParams.SortBy # <<>> THEN searchParams.SortBy
    ELSE <<"c","r","e","a","t","e","d","_","a","t">>

\* Search: the column of ORDER BY
PatientSortColumn(searchParams) ==
    IF searchParams.SortBy # <<>> /\ searchParams.SortBy \in validSortFields
    THEN IF searchParams.SortBy = <<"n","a","m","e">> THEN <<"f","a","m","i","l","y","_","n","a","m","e">>
         ELSE IF searchParams.SortBy = <<"b","i","r","t","h","d","a","t","e">> THEN <<"b","i","r","t","h","_","d","a","t","e">>
         ELSE searchParams.SortBy
    ELSE <<"c","r","e","a","t","e","d","_","a","t">>

\* Search: the direction of ORDER BY
PatientSortOrder(searchParams) ==
    IF searchParams.SortOrder = "asc" THEN "ASC" ELSE "DESC"

EmptyQuery == [where |-> <<>>, args |-> <<>>]

\* Search: the query and its parameters
PatientSearchQuery(searchParams) ==
    LET q1 == AddCondition(EmptyQuery, searchParams.Name # <<>>, SqlName,
                           LikeParameter(searchParams.Name))
        q2 == AddCondition(q1, searchParams.FamilyName # <<>>, SqlFamilyName,
                           LikeParameter(searchParams.FamilyName))
        q3 == AddCondition(q2, searchParams.GivenName # <<>>, SqlGivenName,
                           LikeParameter(searchParams.GivenName))
        q4 == AddCondition(q3, searchParams.Gender # <<>>, SqlGender, searchParams.Gender)
        q5 == AddCondition(q4, searchParams.BirthDate # Nil, SqlBirthDate,
                           searchParams.BirthDate)
        q6 == AddCondition(q5, searchParams.BirthDateGreaterThan # Nil,
                           SqlBirthDateGreaterThan, searchParams.BirthDateGreaterThan)
        q7 == AddCondition(q6, searchParams.BirthDateLessThan # Nil,
                           SqlBirthDateLessThan, searchParams.BirthDateLessThan)
        q8 == AddCondition(q7, searchParams.Active # Nil, SqlActive, searchParams.Active)
    IN  [where     |-> q8.where,
         orderBy   |-> PatientSortColumn(searchParams),
         direction |-> PatientSortOrder(searchParams),
         limit     |-> Len(q8.args) + 1,
         offset    |-> Len(q8.args) + 2,
         args      |-> q8.args \o << searchParams.Limit, searchParams.Offset >>]

\* the database evaluates one condition on one row; a comparison with a
\* NULL birth_date is not true
PgCondition(row, condition, args) ==
    LET parameter == args[condition.index]
    IN  IF condition.sql = SqlName
        THEN PgLike(PgLower(row.GivenName), parameter)
               \/ PgLike(PgLower(row.FamilyName), parameter)
        ELSE IF condition.sql = SqlFamilyName THEN PgLike(PgLower(row.FamilyName), parameter)
        ELSE IF condition.sql = SqlGivenName THEN PgLike(PgLower(row.GivenName), parameter)
        ELSE IF condition.sql = SqlGender THEN row.Gender = parameter
        ELSE IF condition.sql = SqlBirthDate
             THEN row.BirthDate # Nil /\ row.BirthDate[1] = parameter[1]
        ELSE IF condition.sql = SqlBirthDateGreaterThan
             THEN row.BirthDate # Nil /\ TimeLeq(parameter[1], row.BirthDate[1])
        ELSE IF condition.sql = SqlBirthDateLessThan
             THEN row.BirthDate # Nil /\ TimeLeq(row.BirthDate[1], parameter[1])
        ELSE row.Active = parameter[1]

PgWhere(row, query) ==
    \A k \in 1..Len(query.where) : PgCondition(row, query.where[k], query.args)

\* the rows of a sequence that satisfy a predicate given as a set of indexes
RECURSIVE SelectRows(_, _)
SelectRows(rows, keep) ==
    IF rows = <<>> THEN <<>>
    ELSE LET rest == SelectRows(SubSeq(rows, 1, Len(rows) - 1), keep)
         IN  IF Len(rows) \in keep THEN Append(rest, rows[Len(rows)]) ELSE rest

\* a sorts before b in ascending order of the column; NULL sorts as larger
\* than every value
PgColumnLess(column, a, b) ==
    IF column = <<"f","a","m","i","l","y","_","n","a","m","e">> THEN TextLess(a.FamilyName, b.FamilyName)
    ELSE IF column = <<"g","i","v","e","n","_","n","a","m","e">> THEN TextLess(a.GivenName, b.GivenName)
    ELSE IF column = <<"g","e","n","d","e","r">> THEN TextLess(a.Gender, b.Gender)
    ELSE IF column = <<"b","i","r","t","h","_","d","a","t","e">>
         THEN a.BirthDate # Nil /\ (b.BirthDate = Nil \/ TimeLess(a.BirthDate[1], b.BirthDate[1]))
    ELSE a.CreatedAt < b.CreatedAt

\* the orders in which the database may return rows under ORDER BY column
\* direction: every arrangement in which no row comes after a row that sorts
\* after it; rows with equal keys come in any order
PgOrderings(rows, column, direction) ==
    { order \in [1..Len(rows) -> 1..Len(rows)] :
        /\ \A i, j \in 1..Len(rows) : i # j => order[i] # order[j]
        /\ \A i, j \in 1..Len(rows) : i < j =>
              IF direction = "ASC"
              THEN ~PgColumnLess(column, rows[order[j]], rows[order[i]])
              ELSE ~PgColumnLess(column, rows[order[i]], rows[order[j]]) }

\* LIMIT limit OFFSET offset
PgPage(rows, limit, offset) ==
    IF offset >= Len(rows) THEN <<>>
    ELSE SubSeq(rows, offset + 1, IF offset + limit < Len(rows) THEN offset + limit ELSE Len(rows))

\* the answers that the database may give to the query of Search
PgSelect(rows, query) ==
    LET matching == SelectRows(rows, { i \in 1..Len(rows) : PgWhere(rows[i], query) })
    IN  { PgPage([i \in 1..Len(matching) |-> matching[order[i]]],
                 query.args[query.limit], query.args[query.offset]) :
            order \in PgOrderings(matching, query.orderBy, query.direction) }

\* the places of the hyphens in the text of a uuid
UUIDHyphens == { 9, 14, 19, 24 }

UUIDLength == 36

\* the id that gen_random_uuid() gives to the n-th row inserted, as text:
\* 00000000-0000-4000-8000-00000000000n
PatientRowID(n) ==
    [i \in 1..UUIDLength |->
        IF i \in UUIDHyphens THEN "-"
        ELSE IF i = 15 THEN "4"
        ELSE IF i = 20 THEN "8"
        ELSE IF i = UUIDLength THEN DigitChar(n % 10)
        ELSE "0"]

\* the readings of CURRENT_TIMESTAMP
StorageClock == { 1 }

\* the errors of the driver: the connection, the context
StorageErrors == { << "connection refused" >>, << "context canceled" >> }

\* what the storage does with a call: it answers, or fails with an error
StorageFaults == { Nil } \cup { Some(e) : e \in StorageErrors }

\* Create: the record after the scan of RETURNING id, created_at, updated_at
RepositoryCreate(patient, id, now) ==
    [patient EXCEPT !.ID = id, !.CreatedAt = now, !.UpdatedAt = now]

\* Create: one INSERT; the error of the scan, or the record with the id and
\* the timestamps of the row
PatientRepositoryCreate(rows, patient, id, now, fault) ==
    LET statement == [op |-> "QueryRowContext", sql |-> "INSERT INTO patients",
                      args |-> << patient >>, err |-> fault]
    IN  IF fault # Nil
        THEN [value |-> Nil, err |-> fault, rows |-> rows, db |-> << statement >>]
        ELSE [value |-> Some(RepositoryCreate(patient, id, now)), err |-> Nil,
              rows  |-> Append(rows, RepositoryCreate(patient, id, now)),
              db    |-> << statement >>]

\* Search: one SELECT; the error of the query, or the rows of its answer
PatientRepositorySearch(rows, searchParams, answer, fault) ==
    LET statement == [op |-> "QueryContext", sql |-> PatientSearchQuery(searchParams),
                      args |-> PatientSearchQuery(searchParams).args, err |-> fault]
    IN  IF fault # Nil
        THEN [value |-> Nil, err |-> fault, rows |-> rows, db |-> << statement >>]
        ELSE [value |-> Some(answer), err |-> Nil, rows |-> rows, db |-> << statement >>]

(***************************************************************************)
(* Patients stored and searches made through the repository.               *)
(***************************************************************************)
StoredPatients ==
    { [ZeroPatient EXCEPT !.FamilyName = <<"S","m","i","t","h">>, !.GivenName = <<"J","o","h","n">>,
                          !.Gender = <<"m","a","l","e">>, !.BirthDate = Some(Date(1990, 3, 5)),
                          !.Active = TRUE],
      [ZeroPatient EXCEPT !.FamilyName = <<"J","o","n","e","s">>, !.GivenName = <<"S","m","i","t","h","s","o","n">>,
                          !.Gender = <<"f","e","m","a","l","e">>, !.BirthDate = Nil,
                          !.Active = FALSE],
      [ZeroPatient EXCEPT !.FamilyName = <<"S","M","I","T","H">>, !.GivenName = <<"A","n","n">>,
                          !.Gender = <<"m","a","l","e">>, !.BirthDate = Some(Date(1985, 7, 1)),
                          !.Active = TRUE],
      [ZeroPatient EXCEPT !.FamilyName = <<"L","e","e">>, !.GivenName = <<"J","o">>,
                          !.Gender = <<"m","a","l","e">>, !.BirthDate = Some(Date(1990, 1, 1)),
                          !.Active = FALSE] }

NoFilters ==
    [Name |-> <<>>, FamilyName |-> <<>>, GivenName |-> <<>>, Gender |-> <<>>,
     BirthDate |-> Nil, BirthDateGreaterThan |-> Nil, BirthDateLessThan |-> Nil,
     Active |-> Nil, SortBy |-> <<>>, SortOrder |-> "", Limit |-> DefaultLimit,
     Offset |-> DefaultOffset]

\* every combination of present filters
FilterSearches ==
    [Name : { <<>>, <<"s","m","i">> }, FamilyName : { <<>>, <<"S","M","I","T","H">> },
     GivenName : { <<>>, <<"j","o">> }, Gender : { <<>>, <<"m","a","l","e">> },
     BirthDate : { Nil, Some(Date(1990, 3, 5)) },
     BirthDateGreaterThan : { Nil, Some(Date(1990, 1, 1)) },
     BirthDateLessThan : { Nil, Some(Date(1990, 3, 5)) },
     Active : { Nil, Some(TRUE) }, SortBy : { <<>> }, SortOrder : { "" },
     Limit : { DefaultLimit }, Offset : { DefaultOffset }]

\* name filters, with and without the characters that LIKE gives a meaning
NameSearches ==
    { [NoFilters EXCEPT !.Name = v] :
        v \in { <<"s","o","n">>, <<"x","y","z">>, <<"%">>, <<"_">>, <<"J","_","n">>, <<"\\">> } } \cup
    { [NoFilters EXCEPT !.FamilyName = v] : v \in { <<"e","e">>, <<"_">> } } \cup
    { [NoFilters EXCEPT !.GivenName = v] : v \in { <<"A","N","N">>, <<"%">> } }

SortFields ==
    validSortFields \cup { <<>>, <<"b","i","r","t","h","_","d","a","t","e">>, <<"i","d">> }

\* sorted and paged searches
SortSearches ==
    { [NoFilters EXCEPT !.SortBy = f, !.SortOrder = o, !.Limit = p[1], !.Offset = p[2]] :
        f \in SortFields, o \in { "", "asc", "desc", "ASC" },
        p \in { <<10, 0>>, <<1, 0>>, <<1, 1>> } }

PatientSearches == FilterSearches \cup NameSearches \cup SortSearches

\* a caller stores a patient through the repository
PatientRepositoryCreateCall ==
    /\ call = NoCall
    /\ UNCHANGED requests
    /\ \E patient \in StoredPatients, now \in StorageClock, fault \in StorageFaults :
        LET id  == PatientRowID(issued.patients + 1)
            ret == PatientRepositoryCreate(patients, patient, id, now, fault)
        IN  /\ fault = Nil => issued.patients < MaxPatients
            /\ call' = [op |-> "PatientRepository.Create", arg |-> patient]
            /\ result' = [value |-> ret.value, err |-> ret.err]
            /\ patients' = ret.rows
            /\ issued' = IF fault = Nil THEN [issued EXCEPT !.patients = @ + 1] ELSE issued
            /\ dbLog' = ret.db
            /\ UNCHANGED <<observations, repoLog>>

\* a caller searches through the repository
PatientRepositorySearchCall ==
    /\ call = NoCall
    /\ UNCHANGED requests
    /\ \E searchParams \in PatientSearches, fault \in StorageFaults :
        \E answer \in IF fault = Nil
                      THEN PgSelect(patients, PatientSearchQuery(searchParams))
                      ELSE { <<>> } :
            LET ret == PatientRepositorySearch(patients, searchParams, answer, fault)
            IN  /\ call' = [op |-> "PatientRepository.Search", arg |-> searchParams]
                /\ result' = [value |-> ret.value, err |-> ret.err]
                /\ dbLog' = ret.db
                /\ UNCHANGED <<patients, observations, issued, repoLog>>

NextPatientSearch == PatientRepositoryCreateCall \/ PatientRepositorySearchCall \/ Return

SpecPatientSearch == Init /\ [][NextPatientSearch]_vars

\* the searches alone, on the table as it is after construction: the
\* statement that Search compiles does not depend on the rows
NextPatientSearchQuery == PatientRepositorySearchCall \/ Return

SpecPatientSearchQuery == Init /\ [][NextPatientSearchQuery]_vars

(***************************************************************************)
(* The Observation repository (repository.MongoObservationRepository) and  *)
(* the observations collection behind it.                                  *)
(*                                                                         *)
(* An error is the sequence of the parts of its message: fmt.Errorf with   *)
(* %w puts its own part in front of the parts of the error it wraps.  A    *)
(* document is its _id, <<"objectId", twenty-four hex digit values>> or    *)
(* <<"string", characters>>, and the fields of models.Observation.  A      *)
(* bson.M is a function from its keys.                                     *)
(***************************************************************************)
Errorf(message, err) == << message >> \o err

ErrNoDocuments == << "mongo: no documents in result" >>

ErrInvalidHex == << "the provided hex string is not a valid ObjectID" >>

ErrDuplicateKey == << "E11000 duplicate key error" >>

HexLower == <<"0","1","2","3","4","5","6","7","8","9","a","b","c","d","e","f">>

HexUpper == <<"0","1","2","3","4","5","6","7","8","9","A","B","C","D","E","F">>

IsHex(c) == \E k \in 1..16 : HexLower[k] = c \/ HexUpper[k] = c

HexVal(c) == (CHOOSE k \in 1..16 : HexLower[k] = c \/ HexUpper[k] = c) - 1

ObjectIDLength == 24

\* primitive.ObjectIDFromHex: <<>> on an error, else the id
ObjectIDFromHex(s) ==
    IF Len(s) = ObjectIDLength /\ \A i \in 1..Len(s) : IsHex(s[i])
    THEN Some([i \in 1..ObjectIDLength |-> HexVal(s[i])])
    ELSE Nil

\* ObjectID.Hex
ObjectIDHex(objectID) == [i \in 1..ObjectIDLength |-> HexLower[objectID[i] + 1]]

\* the n-th id that the driver generates for a document without _id
NewObjectID(n) == [i \in 1..ObjectIDLength |-> IF i = ObjectIDLength THEN n % 16 ELSE 6]

\* the _id of the document that the driver builds from the record: the ID
\* as a string, or with omitempty a generated ObjectID
DocumentID(observation, objectID) ==
    IF observation.ID = <<>> THEN << "objectId", objectID >> ELSE << "string", observation.ID >>

SameID(a, b) == a[1] = b[1] /\ a[2] = b[2]

\* the record that the driver decodes from a document
DecodeObservation(document) ==
    [document.body EXCEPT
       !.ID = IF document.id[1] = "objectId" THEN ObjectIDHex(document.id[2])
              ELSE document.id[2]]

\* filter[key] = value
Put(m, key, value) ==
    [k \in (DOMAIN m) \cup {key} |-> IF k = key THEN value ELSE m[k]]

EmptyM == [k \in {} |-> 0]

\* the range with each bound written as a sub-filter of its own
PutRange_Replacing(filter, key, operator, value) ==
    Put(filter, key, Put(EmptyM, operator, value))

\* if filter[key] == nil { filter[key] = bson.M{} };
\* filter[key].(bson.M)[operator] = value
PutRange(filter, key, operator, value) ==
    LET range == IF key \in DOMAIN filter THEN filter[key] ELSE EmptyM
    IN  Put(filter, key, Put(range, operator, value))

\* Search: the filter
ObservationSearchFilter(searchParams) ==
    LET f1 == IF searchParams.PatientID # <<>>
              THEN Put(EmptyM, "patient_id", searchParams.PatientID) ELSE EmptyM
        f2 == IF searchParams.Code # <<>> THEN Put(f1, "code", searchParams.Code) ELSE f1
        f3 == IF searchParams.Category # <<>>
              THEN Put(f2, "category", searchParams.Category) ELSE f2
        f4 == IF searchParams.Status # <<>> THEN Put(f3, "status", searchParams.Status) ELSE f3
        f5 == IF searchParams.DateGreaterThan # Nil
              THEN PutRange(f4, "effective_date", "$gte", searchParams.DateGreaterThan)
              ELSE f4
    IN  IF searchParams.DateLessThan # Nil
        THEN PutRange(f5, "effective_date", "$lte", searchParams.DateLessThan)
        ELSE f5

observationSortFields == { <<"e","f","f","e","c","t","i","v","e","_","d","a","t","e">>, <<"c","o","d","e">>, <<"s","t","a","t","u","s">>, <<"c","r","e","a","t","e","d","_","a","t">> }

\* Search: the options of Find
ObservationFindOptions(searchParams) ==
    [limit |-> searchParams.Limit,
     skip  |-> searchParams.Offset,
     sort  |-> [field |-> IF searchParams.SortBy # <<>>
                              /\ searchParams.SortBy \in observationSortFields
                           THEN searchParams.SortBy ELSE <<"c","r","e","a","t","e","d","_","a","t">>,
                order |-> IF searchParams.SortOrder = "asc" THEN 1 ELSE 0 - 1]]

\* the server evaluates the filter on one document; a document without
\* effective_date is in no range
MongoMatches(document, filter) ==
    \A key \in DOMAIN filter :
        IF key = "patient_id" THEN document.body.PatientID = filter[key]
        ELSE IF key = "code" THEN document.body.Code = filter[key]
        ELSE IF key = "category" THEN document.body.Category = filter[key]
        ELSE IF key = "status" THEN document.body.Status = filter[key]
        ELSE /\ document.body.EffectiveDate # Nil
             /\ \A operator \in DOMAIN filter[key] :
                   IF operator = "$gte"
                   THEN TimeLeq(filter[key][operator][1], document.body.EffectiveDate[1])
                   ELSE TimeLeq(document.body.EffectiveDate[1], filter[key][operator][1])

\* a sorts before b in ascending order of the field; a missing
\* effective_date sorts before every date
MongoFieldLess(field, a, b) ==
    IF field = <<"e","f","f","e","c","t","i","v","e","_","d","a","t","e">>
    THEN b.body.EffectiveDate # Nil
           /\ (a.body.EffectiveDate = Nil
                 \/ TimeLess(a.body.EffectiveDate[1], b.body.EffectiveDate[1]))
    ELSE IF field = <<"c","o","d","e">> THEN TextLess(a.body.Code, b.body.Code)
    ELSE IF field = <<"s","t","a","t","u","s">> THEN TextLess(a.body.Status, b.body.Status)
    ELSE a.body.CreatedAt < b.body.CreatedAt

\* the orders in which the server may return documents under the sort;
\* documents with equal keys come in any order
MongoOrderings(documents, sort) ==
    { order \in [1..Len(documents) -> 1..Len(documents)] :
        /\ \A i, j \in 1..Len(documents) : i # j => order[i] # order[j]
        /\ \A i, j \in 1..Len(documents) : i < j =>
              IF sort.order = 1
              THEN ~MongoFieldLess(sort.field, documents[order[j]], documents[order[i]])
              ELSE ~MongoFieldLess(sort.field, documents[order[i]], documents[order[j]]) }

\* skip and limit; a limit of 0 is no limit
MongoPage(documents, limit, skip) ==
    IF skip >= Len(documents) THEN <<>>
    ELSE SubSeq(documents, skip + 1,
                IF limit > 0 /\ skip + limit < Len(documents)
                THEN skip + limit ELSE Len(documents))

\* the answers that the server may give to Find
MongoFind(documents, filter, findOptions) ==
    LET matching == SelectRows(documents,
                       { i \in 1..Len(documents) : MongoMatches(documents[i], filter) })
    IN  { MongoPage([i \in 1..Len(matching) |-> matching[order[i]]],
                    findOptions.limit, findOptions.skip) :
            order \in MongoOrderings(matching, findOptions.sort) }

\* Create: the timestamps, one InsertOne, and the generated id when there is
\* one; now holds the two readings of time.Now()
ObservationRepositoryCreate(documents, observation, objectID, now, fault) ==
    LET stamped   == [observation EXCEPT !.CreatedAt = now[1], !.UpdatedAt = now[2]]
        id        == DocumentID(stamped, objectID)
        duplicate == \E i \in 1..Len(documents) : SameID(documents[i].id, id)
        insertError == IF fault # Nil THEN fault
                       ELSE IF duplicate THEN Some(ErrDuplicateKey) ELSE Nil
        command   == [op |-> "InsertOne", document |-> stamped, err |-> insertError]
    IN  IF insertError # Nil
        THEN [value |-> Nil,
              err   |-> Some(Errorf("failed to insert observation: ", insertError[1])),
              documents |-> documents, db |-> << command >>]
        ELSE [value |-> Some(IF id[1] = "objectId"
                             THEN [stamped EXCEPT !.ID = ObjectIDHex(objectID)]
                             ELSE stamped),
              err   |-> Nil,
              documents |-> Append(documents, [id |-> id, body |-> stamped]),
              db    |-> << command >>]

\* Search: one Find; the wrapped error, or the decoded documents
ObservationRepositorySearch(documents, searchParams, answer, fault) ==
    LET command == [op |-> "Find", filter |-> ObservationSearchFilter(searchParams),
                    options |-> ObservationFindOptions(searchParams), err |-> fault]
    IN  IF fault # Nil
        THEN [value |-> Nil,
              err   |-> Some(Errorf("failed to search observations: ", fault[1])),
              documents |-> documents, db |-> << command >>]
        ELSE [value |-> Some([i \in 1..Len(answer) |-> DecodeObservation(answer[i])]),
              err   |-> Nil, documents |-> documents, db |-> << command >>]

(***************************************************************************)
(* Observations stored and searches made through the repository.           *)
(***************************************************************************)
ZeroObservation ==
    [ID |-> <<>>, PatientID |-> <<>>, Status |-> <<>>, Category |-> <<>>, Code |-> <<>>,
     CodeSystem |-> "", CodeDisplay |-> "", ValueQuantity |-> Nil, ValueUnit |-> "",
     ValueString |-> "", EffectiveDate |-> Nil, IssuedDate |-> [parsed |-> Nil, instant |-> 1],
     Components |-> <<>>, CreatedAt |-> 0, UpdatedAt |-> 0]

StoredObservations ==
    { [ZeroObservation EXCEPT !.PatientID = <<"a","b","c">>, !.Status = <<"f","i","n","a","l">>,
                              !.Category = <<"v","i","t","a","l","-","s","i","g","n","s">>, !.Code = <<"8","4","8","0","-","6">>,
                              !.EffectiveDate = Some(DateTime(2024, 1, 15, 10, 30, 0))],
      [ZeroObservation EXCEPT !.PatientID = <<"a","b","c">>, !.Status = <<"a","m","e","n","d","e","d">>,
                              !.Category = <<"l","a","b","o","r","a","t","o","r","y">>, !.Code = <<"2","3","3","9","-","0">>,
                              !.EffectiveDate = Some(DateTime(2024, 3, 1, 0, 0, 0))],
      [ZeroObservation EXCEPT !.PatientID = <<"x","y","z">>, !.Status = <<"f","i","n","a","l">>,
                              !.Category = <<"v","i","t","a","l","-","s","i","g","n","s">>, !.Code = <<"8","4","8","0","-","6">>,
                              !.EffectiveDate = Nil] }

NoObservationFilters ==
    [PatientID |-> <<>>, Code |-> <<>>, Category |-> <<>>, Status |-> <<>>,
     DateGreaterThan |-> Nil, DateLessThan |-> Nil, SortBy |-> <<>>, SortOrder |-> "",
     Limit |-> DefaultLimit, Offset |-> DefaultOffset]

\* every combination of present filters, with date ranges that hold a
\* stored date on their bound, and an empty range
ObservationFilterSearches ==
    [PatientID : { <<>>, <<"a","b","c">> }, Code : { <<>>, <<"8","4","8","0","-","6">> },
     Category : { <<>>, <<"v","i","t","a","l","-","s","i","g","n","s">> }, Status : { <<>>, <<"f","i","n","a","l">> },
     DateGreaterThan : { Nil, Some(DateTime(2024, 1, 15, 10, 30, 0)),
                         Some(DateTime(2024, 1, 15, 10, 30, 1)) },
     DateLessThan : { Nil, Some(DateTime(2024, 1, 15, 10, 30, 0)),
                      Some(DateTime(2024, 3, 1, 0, 0, 0)) },
     SortBy : { <<>> }, SortOrder : { "" },
     Limit : { DefaultLimit }, Offset : { DefaultOffset }]

ObservationSortSearches ==
    { [NoObservationFilters EXCEPT !.SortBy = f, !.SortOrder = o,
                                   !.Limit = p[1], !.Offset = p[2]] :
        f \in observationSortFields \cup { <<>>, <<"i","d">> }, o \in { "", "asc", "desc" },
        p \in { <<10, 0>>, <<1, 0>>, <<1, 1>> } }

ObservationSearches == ObservationFilterSearches \cup ObservationSortSearches

\* the readings of time.Now() in Create
CreateInstants == { <<2, 2>> }

\* a caller stores an observation through the repository
ObservationRepositoryCreateCall ==
    /\ call = NoCall
    /\ UNCHANGED requests
    /\ \E observation \in StoredObservations, now \in CreateInstants, fault \in StorageFaults :
        LET objectID == NewObjectID(issued.observations + 1)
            ret      == ObservationRepositoryCreate(observations, observation, objectID,
                                                    now, fault)
        IN  /\ fault = Nil => issued.observations < MaxObservations
            /\ call' = [op |-> "ObservationRepository.Create", arg |-> observation]
            /\ result' = [value |-> ret.value, err |-> ret.err]
            /\ observations' = ret.documents
            /\ issued' = IF ret.err = Nil THEN [issued EXCEPT !.observations = @ + 1]
                         ELSE issued
            /\ dbLog' = ret.db
            /\ UNCHANGED <<patients, repoLog>>

\* a caller searches through the repository
ObservationRepositorySearchCall ==
    /\ call = NoCall
    /\ UNCHANGED requests
    /\ \E searchParams \in ObservationSearches, fault \in StorageFaults :
        \E answer \in IF fault = Nil
                      THEN MongoFind(observations, ObservationSearchFilter(searchParams),
                                     ObservationFindOptions(searchParams))
                      ELSE { <<>> } :
            LET ret == ObservationRepositorySearch(observations, searchParams, answer, fault)
            IN  /\ call' = [op |-> "ObservationRepository.Search", arg |-> searchParams]
                /\ result' = [value |-> ret.value, err |-> ret.err]
                /\ dbLog' = ret.db
                /\ UNCHANGED <<patients, observations, issued, repoLog>>

NextObservationSearch ==
    ObservationRepositoryCreateCall \/ ObservationRepositorySearchCall \/ Return

SpecObservationSearch == Init /\ [][NextObservationSearch]_vars

(***************************************************************************)
(* The Patient service (service.PatientService) over the repository.       *)
(***************************************************************************)
\* CreatePatient without the default
CreatePatientDomainPatient_NoDefault(fhirPatient) ==
    PatientFromFHIR(fhirPatient)

\* CreatePatient: the record handed to the repository
CreatePatientDomainPatient(fhirPatient) ==
    LET domainPatient == PatientFromFHIR(fhirPatient)
    IN  IF fhirPatient.Active = Nil
        THEN [domainPatient EXCEPT !.Active = TRUE]
        ELSE domainPatient

\* the answer of a service call: a value and no error, or an error and nil
ServiceReturn(value) == [value |-> Some(value), err |-> Nil]

ServiceError(err) == [value |-> Nil, err |-> Some(err)]

\* CreatePatient: one call of Create; its error, or the created record on
\* the wire
CreatePatient(rows, fhirPatient, id, now, fault) ==
    LET domainPatient == CreatePatientDomainPatient(fhirPatient)
        ret           == PatientRepositoryCreate(rows, domainPatient, id, now, fault)
        repo          == << [op |-> "Create", patient |-> domainPatient,
                             value |-> ret.value, err |-> ret.err] >>
    IN  IF ret.err # Nil
        THEN [value |-> Nil, err |-> ret.err, rows |-> ret.rows, db |-> ret.db,
              repo |-> repo]
        ELSE [value |-> Some(PatientToFHIR(ret.value[1])), err |-> Nil,
              rows |-> ret.rows, db |-> ret.db, repo |-> repo]

\* the wire Patients given to the service
ServiceWirePatients ==
    [Id : {Nil, Some("p1")}, Active : {Nil, Some(TRUE), Some(FALSE)},
     Name : { <<>>, << [Family |-> Some("Smith"), Given |-> << "John" >>] >> },
     Gender : {Nil}, BirthDate : {Nil}, Identifier : { <<>> }]

\* a caller creates a patient through the service
CreatePatientCall ==
    /\ call = NoCall
    /\ UNCHANGED requests
    /\ \E fhirPatient \in ServiceWirePatients, now \in StorageClock, fault \in StorageFaults :
        LET id  == PatientRowID(issued.patients + 1)
            ret == CreatePatient(patients, fhirPatient, id, now, fault)
        IN  /\ fault = Nil => issued.patients + issued.observations < MaxRecords
            /\ call' = [op |-> "CreatePatient", arg |-> fhirPatient]
            /\ result' = [value |-> ret.value, err |-> ret.err]
            /\ patients' = ret.rows
            /\ issued' = IF fault = Nil THEN [issued EXCEPT !.patients = @ + 1] ELSE issued
            /\ repoLog' = ret.repo
            /\ dbLog' = ret.db
            /\ UNCHANGED observations

NextPatientService == CreatePatientCall \/ Return

SpecPatientService == Init /\ [][NextPatientService]_vars

(***************************************************************************)
(* The Patient repository: the point lookups, the listing, the update and  *)
(* the delete.                                                             *)
(***************************************************************************)
\* sql.ErrNoRows, the error of Scan when the query gave no row
ErrNoRows == << "sql: no rows in result set" >>

\* the error of the database for a parameter that is not the text of a uuid
ErrInvalidUUID == << "pq: invalid input syntax for type uuid" >>

\* the column id is of type UUID: the database reads the parameter as
\* thirty-two hex digits in groups of 8, 4, 4, 4 and 12
IsUUID(s) ==
    /\ Len(s) = UUIDLength
    /\ \A i \in 1..Len(s) : IF i \in UUIDHyphens THEN s[i] = "-" ELSE IsHex(s[i])

\* the indexes of the rows WHERE id = $n
RowsWithID(rows, id) == { i \in 1..Len(rows) : rows[i].ID = id }

\* the error of a statement with WHERE id = $n that must give a row
RowError(rows, id, fault) ==
    IF fault # Nil THEN fault
    ELSE IF ~IsUUID(id) THEN Some(ErrInvalidUUID)
    ELSE IF RowsWithID(rows, id) = {} THEN Some(ErrNoRows)
    ELSE Nil

\* GetByID: one SELECT; the error of the scan, or the row
PatientRepositoryGetByID(rows, patientID, fault) ==
    LET scanError == RowError(rows, patientID, fault)
        statement == [op |-> "QueryRowContext", sql |-> "SELECT FROM patients WHERE id = $1",
                      args |-> << patientID >>, err |-> scanError]
    IN  IF scanError # Nil
        THEN [value |-> Nil, err |-> scanError, rows |-> rows, db |-> << statement >>]
        ELSE [value |-> Some(rows[CHOOSE i \in RowsWithID(rows, patientID) : TRUE]),
              err |-> Nil, rows |-> rows, db |-> << statement >>]

\* GetAll: the query
PatientGetAllQuery(limit, offset) ==
    [where |-> <<>>, orderBy |-> <<"c","r","e","a","t","e","d","_","a","t">>, direction |-> "DESC",
     limit |-> 1, offset |-> 2, args |-> << limit, offset >>]

\* GetAll: one SELECT; the error of the query, or the rows of its answer
PatientRepositoryGetAll(rows, limit, offset, answer, fault) ==
    LET statement == [op |-> "QueryContext", sql |-> PatientGetAllQuery(limit, offset),
                      args |-> << limit, offset >>, err |-> fault]
    IN  IF fault # Nil
        THEN [value |-> Nil, err |-> fault, rows |-> rows, db |-> << statement >>]
        ELSE [value |-> Some(answer), err |-> Nil, rows |-> rows, db |-> << statement >>]

\* Update: the row after SET ... WHERE id = $9
RepositoryUpdate(row, patient, now) ==
    [row EXCEPT !.IdentifierSystem = patient.IdentifierSystem,
                !.IdentifierValue = patient.IdentifierValue,
                !.Active = patient.Active,
                !.FamilyName = patient.FamilyName,
                !.GivenName = patient.GivenName,
                !.Gender = patient.Gender,
                !.BirthDate = patient.BirthDate,
                !.UpdatedAt = now]

\* an Update that inserts the row when no row has the id
PatientRepositoryUpdate_Upsert(rows, patient, now, fault) ==
    LET stamped   == [patient EXCEPT !.UpdatedAt = now]
        statement == [op |-> "QueryRowContext", sql |-> "INSERT INTO patients ON CONFLICT (id) DO UPDATE SET",
                      args |-> << stamped >>, err |-> fault]
    IN  IF fault # Nil
        THEN [value |-> Nil, err |-> fault, rows |-> rows, db |-> << statement >>]
        ELSE IF RowsWithID(rows, patient.ID) = {}
        THEN [value |-> Some(stamped), err |-> Nil,
              rows  |-> Append(rows, stamped), db |-> << statement >>]
        ELSE [value |-> Some(stamped), err |-> Nil,
              rows  |-> [i \in 1..Len(rows) |->
                           IF i \in RowsWithID(rows, patient.ID)
                           THEN RepositoryUpdate(rows[i], patient, now) ELSE rows[i]],
              db    |-> << statement >>]

\* Update: the timestamp, one UPDATE; the error of the scan, or the record
\* given with its new timestamp
PatientRepositoryUpdate(rows, patient, now, fault) ==
    LET stamped   == [patient EXCEPT !.UpdatedAt = now]
        scanError == RowError(rows, patient.ID, fault)
        statement == [op |-> "QueryRowContext", sql |-> "UPDATE patients SET WHERE id = $9",
                      args |-> << stamped >>, err |-> scanError]
    IN  IF scanError # Nil
        THEN [value |-> Nil, err |-> scanError, rows |-> rows, db |-> << statement >>]
        ELSE [value |-> Some(stamped), err |-> Nil,
              rows  |-> [i \in 1..Len(rows) |->
                           IF i \in RowsWithID(rows, patient.ID)
                           THEN RepositoryUpdate(rows[i], patient, now) ELSE rows[i]],
              db    |-> << statement >>]

\* Delete: one DELETE; the error of the statement and nothing else, so that
\* a delete of no row is not an error
PatientRepositoryDelete(rows, patientID, fault) ==
    LET execError == IF fault # Nil THEN fault
                     ELSE IF ~IsUUID(patientID) THEN Some(ErrInvalidUUID) ELSE Nil
        statement == [op |-> "ExecContext", sql |-> "DELETE FROM patients WHERE id = $1",
                      args |-> << patientID >>, err |-> execError]
    IN  IF execError # Nil
        THEN [value |-> Nil, err |-> execError, rows |-> rows, db |-> << statement >>]
        ELSE [value |-> Nil, err |-> Nil,
              rows  |-> SelectRows(rows, { i \in 1..Len(rows) : rows[i].ID # patientID }),
              db    |-> << statement >>]

(***************************************************************************)
(* The Observation repository: the point lookup, the listings, the update  *)
(* and the delete.                                                         *)
(***************************************************************************)
\* the indexes of the documents that the filter {"_id": objectID} matches: an
\* _id stored as a string is not equal to an ObjectID
DocumentsWithID(documents, objectID) ==
    { i \in 1..Len(documents) : SameID(documents[i].id, << "objectId", objectID >>) }

\* the error for an id that is not the hex form of an ObjectID
InvalidObservationID == Errorf("invalid observation ID: ", ErrInvalidHex)

\* the error for a filter that matched no document
ObservationNotFound == << "observation not found" >>

\* GetByID with one message for every error of FindOne
FindOneError_Opaque(findError) ==
    << "failed to find observation" >>

\* GetByID: the error returned for an error of FindOne
FindOneError(findError) ==
    IF findError = ErrNoDocuments THEN ObservationNotFound
    ELSE Errorf("failed to find observation: ", findError)

\* GetByID: the conversion of the id, then one FindOne
ObservationRepositoryGetByID(documents, observationID, fault) ==
    LET objectID  == ObjectIDFromHex(observationID)
        found     == DocumentsWithID(documents, objectID[1])
        findError == IF fault # Nil THEN fault
                     ELSE IF found = {} THEN Some(ErrNoDocuments) ELSE Nil
        command   == [op |-> "FindOne", filter |-> Put(EmptyM, "_id", objectID[1]),
                      err |-> findError]
    IN  IF objectID = Nil
        THEN [value |-> Nil, err |-> Some(InvalidObservationID),
              documents |-> documents, db |-> <<>>]
        ELSE IF findError # Nil
        THEN [value |-> Nil, err |-> Some(FindOneError(findError[1])),
              documents |-> documents, db |-> << command >>]
        ELSE [value |-> Some(DecodeObservation(documents[CHOOSE i \in found : TRUE])),
              err |-> Nil, documents |-> documents, db |-> << command >>]

\* GetByPatientID and GetAll: the options of Find
ListFindOptions(limit, offset) ==
    [limit |-> limit, skip |-> offset,
     sort  |-> [field |-> <<"c","r","e","a","t","e","d","_","a","t">>, order |-> 0 - 1]]

\* GetByPatientID and GetAll: one Find with the filter; the wrapped error, or
\* the decoded documents
ObservationRepositoryFind(documents, filter, limit, offset, answer, fault) ==
    LET command == [op |-> "Find", filter |-> filter,
                    options |-> ListFindOptions(limit, offset), err |-> fault]
    IN  IF fault # Nil
        THEN [value |-> Nil,
              err   |-> Some(Errorf("failed to find observations: ", fault[1])),
              documents |-> documents, db |-> << command >>]
        ELSE [value |-> Some([i \in 1..Len(answer) |-> DecodeObservation(answer[i])]),
              err   |-> Nil, documents |-> documents, db |-> << command >>]

ObservationRepositoryGetByPatientID(documents, patientID, limit, offset, answer, fault) ==
    ObservationRepositoryFind(documents, Put(EmptyM, "patient_id", patientID),
                              limit, offset, answer, fault)

ObservationRepositoryGetAll(documents, limit, offset, answer, fault) ==
    ObservationRepositoryFind(documents, EmptyM, limit, offset, answer, fault)

\* Update: the document after $set; _id and created_at stay
DocumentUpdate(document, observation) ==
    [document EXCEPT !.body = [observation EXCEPT !.ID = document.body.ID,
                                                  !.CreatedAt = document.body.CreatedAt]]

\* Update: the conversion of the id, the timestamp, then one UpdateOne
ObservationRepositoryUpdate(documents, observation, now, fault) ==
    LET objectID == ObjectIDFromHex(observation.ID)
        stamped  == [observation EXCEPT !.UpdatedAt = now]
        matched  == DocumentsWithID(documents, objectID[1])
        command  == [op |-> "UpdateOne", filter |-> Put(EmptyM, "_id", objectID[1]),
                     update |-> stamped, err |-> fault]
    IN  IF objectID = Nil
        THEN [value |-> Nil, err |-> Some(InvalidObservationID),
              documents |-> documents, db |-> <<>>]
        ELSE IF fault # Nil
        THEN [value |-> Nil,
              err   |-> Some(Errorf("failed to update observation: ", fault[1])),
              documents |-> documents, db |-> << command >>]
        ELSE IF matched = {}
        THEN [value |-> Nil, err |-> Some(ObservationNotFound),
              documents |-> documents, db |-> << command >>]
        ELSE [value |-> Some(stamped), err |-> Nil,
              documents |-> [i \in 1..Len(documents) |->
                               IF i \in matched THEN DocumentUpdate(documents[i], stamped)
                               ELSE documents[i]],
              db    |-> << command >>]

\* Delete: the conversion of the id, then one DeleteOne
ObservationRepositoryDelete(documents, observationID, fault) ==
    LET objectID == ObjectIDFromHex(observationID)
        matched  == DocumentsWithID(documents, objectID[1])
        command  == [op |-> "DeleteOne", filter |-> Put(EmptyM, "_id", objectID[1]),
                     err |-> fault]
    IN  IF objectID = Nil
        THEN [value |-> Nil, err |-> Some(InvalidObservationID),
              documents |-> documents, db |-> <<>>]
        ELSE IF fault # Nil
        THEN [value |-> Nil,
              err   |-> Some(Errorf("failed to delete observation: ", fault[1])),
              documents |-> documents, db |-> << command >>]
        ELSE IF matched = {}
        THEN [value |-> Nil, err |-> Some(ObservationNotFound),
              documents |-> documents, db |-> << command >>]
        ELSE [value |-> Nil, err |-> Nil,
              documents |-> SelectRows(documents,
                               { i \in 1..Len(documents) : i \notin matched }),
              db    |-> << command >>]

(***************************************************************************)
(* The Observation mapper, from the domain to the wire.                    *)
(***************************************************************************)
\* strconv.FormatFloat(v, 'f', -1, 64) of a plain decimal
FormatFloat(v) ==
    (IF v.neg THEN <<"-">> ELSE <<>>) \o (IF v.int = <<>> THEN <<"0">> ELSE v.int) \o
    (IF v.frac = <<>> THEN <<>> ELSE <<".">> \o v.frac)

\* the zone of the layout element "Z07:00"
FormatZone(minutes) ==
    IF minutes = 0 THEN <<"Z">>
    ELSE LET m == IF minutes < 0 THEN 0 - minutes ELSE minutes
         IN  << IF minutes < 0 THEN "-" ELSE "+" >> \o PadInt(m \div 60, 2) \o <<":">> \o
             PadInt(m % 60, 2)

\* IssuedDate.Format(time.RFC3339): the text of a parsed time, or of the
\* reading of the clock, which stands for its own text
FormatIssued(issuedDate) ==
    IF issuedDate.parsed # Nil
    THEN SubSeq(FormatLayoutDateTimeZ(issuedDate.parsed[1].t), 1, 19) \o
         FormatZone(issuedDate.parsed[1].zone)
    ELSE << "instant", issuedDate.instant >>

\* ToFHIR: the status; fhirObservation.Status keeps its zero value, the
\* first constant of the enumeration, when the domain status is empty
ObservationStatusToFHIR(status) ==
    IF status = "" THEN ObservationStatusRegistered
    ELSE IF status = "registered" THEN ObservationStatusRegistered
    ELSE IF status = "preliminary" THEN ObservationStatusPreliminary
    ELSE IF status = "final" THEN ObservationStatusFinal
    ELSE IF status = "amended" THEN ObservationStatusAmended
    ELSE ObservationStatusFinal

\* ToFHIR: the value of the observation or of a component
ValueToFHIR(holder) ==
    IF holder.ValueQuantity # Nil
    THEN [ValueQuantity |-> Some([Value |-> Some(FormatFloat(holder.ValueQuantity[1])),
                                  Unit  |-> Some(holder.ValueUnit)]),
          ValueString   |-> Nil]
    ELSE [ValueQuantity |-> Nil,
          ValueString   |-> IF holder.ValueString # "" THEN Some(holder.ValueString) ELSE Nil]

\* ToFHIR: one component
ComponentToFHIR(component) ==
    [Code |-> [Coding |-> << [System  |-> Some(component.CodeSystem),
                              Code    |-> Some(component.Code),
                              Display |-> Some(component.CodeDisplay)] >>],
     ValueQuantity |-> ValueToFHIR(component).ValueQuantity,
     ValueString   |-> ValueToFHIR(component).ValueString]

ObservationToFHIR(observation) ==
    [Id       |-> IF observation.ID # <<>> THEN Some(observation.ID) ELSE Nil,
     Status   |-> ObservationStatusToFHIR(observation.Status),
     Category |-> IF observation.Category # ""
                  THEN << [Coding |-> << [System  |-> Nil,
                                          Code    |-> Some(observation.Category),
                                          Display |-> Some(observation.Category)] >>] >>
                  ELSE <<>>,
     Code     |-> [Coding |-> << [System  |-> Some(observation.CodeSystem),
                                  Code    |-> Some(observation.Code),
                                  Display |-> Some(observation.CodeDisplay)] >>],
     Subject  |-> IF observation.PatientID # <<>>
                  THEN Some([Reference |-> Some(PatientReferencePrefix \o observation.PatientID)])
                  ELSE Nil,
     EffectiveDateTime |-> IF observation.EffectiveDate # Nil
                           THEN Some(FormatLayoutDateTimeZ(observation.EffectiveDate[1]))
                           ELSE Nil,
     Issued        |-> Some(FormatIssued(observation.IssuedDate)),
     ValueQuantity |-> ValueToFHIR(observation).ValueQuantity,
     ValueString   |-> ValueToFHIR(observation).ValueString,
     Component     |-> [i \in 1..Len(observation.Components) |->
                           ComponentToFHIR(observation.Components[i])]]

(***************************************************************************)
(* The services (service.PatientService, service.ObservationService) over  *)
(* the two repositories.  Each operation gives its answer, the store after *)
(* it, the calls it made of the repository with their returns, and the     *)
(* calls the repository made of the storage.                               *)
(***************************************************************************)
\* one call of the repository and what it returned
RepositoryCall(op, arg, ret) == [op |-> op, arg |-> arg, value |-> ret.value, err |-> ret.err]

PatientsToFHIR(domainPatients) ==
    [i \in 1..Len(domainPatients) |-> PatientToFHIR(domainPatients[i])]

GetPatientByID(rows, patientID, fault) ==
    LET ret == PatientRepositoryGetByID(rows, patientID, fault)
    IN  [value |-> IF ret.err # Nil THEN Nil ELSE Some(PatientToFHIR(ret.value[1])),
         err   |-> ret.err, rows |-> ret.rows, db |-> ret.db,
         repo  |-> << RepositoryCall("GetByID", patientID, ret) >>]

GetAllPatients(rows, limit, offset, answer, fault) ==
    LET ret == PatientRepositoryGetAll(rows, limit, offset, answer, fault)
    IN  [value |-> IF ret.err # Nil THEN Nil ELSE Some(PatientsToFHIR(ret.value[1])),
         err   |-> ret.err, rows |-> ret.rows, db |-> ret.db,
         repo  |-> << RepositoryCall("GetAll", << limit, offset >>, ret) >>]

\* the record of UpdatePatient with the default of CreatePatient applied
UpdatePatientDomainPatient_ActiveDefault(patientID, fhirPatient) ==
    [PatientFromFHIR(fhirPatient) EXCEPT !.ID = patientID,
                                         !.Active = IF fhirPatient.Active = Nil THEN TRUE ELSE @]

\* UpdatePatient: the record handed to the repository
UpdatePatientDomainPatient(patientID, fhirPatient) ==
    [PatientFromFHIR(fhirPatient) EXCEPT !.ID = patientID]

UpdatePatient(rows, patientID, fhirPatient, now, fault) ==
    LET domainPatient == UpdatePatientDomainPatient(patientID, fhirPatient)
        ret           == PatientRepositoryUpdate(rows, domainPatient, now, fault)
    IN  [value |-> IF ret.err # Nil THEN Nil ELSE Some(PatientToFHIR(ret.value[1])),
         err   |-> ret.err, rows |-> ret.rows, db |-> ret.db,
         repo  |-> << RepositoryCall("Update", domainPatient, ret) >>]

SearchPatients(rows, searchParams, answer, fault) ==
    LET ret == PatientRepositorySearch(rows, searchParams, answer, fault)
    IN  [value |-> IF ret.err # Nil THEN Nil ELSE Some(PatientsToFHIR(ret.value[1])),
         err   |-> ret.err, rows |-> ret.rows, db |-> ret.db,
         repo  |-> << RepositoryCall("Search", searchParams, ret) >>]

DeletePatient(rows, patientID, fault) ==
    LET ret == PatientRepositoryDelete(rows, patientID, fault)
    IN  [value |-> Nil, err |-> ret.err, rows |-> ret.rows, db |-> ret.db,
         repo  |-> << RepositoryCall("Delete", patientID, ret) >>]

ObservationsToFHIR(domainObservations) ==
    [i \in 1..Len(domainObservations) |-> ObservationToFHIR(domainObservations[i])]

\* now holds the readings of time.Now() in the mapper; stored, those in the
\* repository
\* Create once the mapper has given the domain record
CreateObservationRecord(documents, observation, objectID, stored, fault) ==
    LET ret == ObservationRepositoryCreate(documents, observation, objectID, stored, fault)
    IN  [value |-> IF ret.err # Nil THEN Nil ELSE Some(ObservationToFHIR(ret.value[1])),
         err   |-> ret.err, documents |-> ret.documents, db |-> ret.db,
         repo  |-> << RepositoryCall("Create", observation, ret) >>]

CreateObservation(documents, fhirObservation, objectID, now, stored, fault) ==
    CreateObservationRecord(documents, ObservationFromFHIR(fhirObservation, now),
                            objectID, stored, fault)

GetObservationByID(documents, observationID, fault) ==
    LET ret == ObservationRepositoryGetByID(documents, observationID, fault)
    IN  [value |-> IF ret.err # Nil THEN Nil ELSE Some(ObservationToFHIR(ret.value[1])),
         err   |-> ret.err, documents |-> ret.documents, db |-> ret.db,
         repo  |-> << RepositoryCall("GetByID", observationID, ret) >>]

GetObservationsByPatientID(documents, patientID, limit, offset, answer, fault) ==
    LET ret == ObservationRepositoryGetByPatientID(documents, patientID, limit, offset,
                                                   answer, fault)
    IN  [value |-> IF ret.err # Nil THEN Nil ELSE Some(ObservationsToFHIR(ret.value[1])),
         err   |-> ret.err, documents |-> ret.documents, db |-> ret.db,
         repo  |-> << RepositoryCall("GetByPatientID", << patientID, limit, offset >>, ret) >>]

GetAllObservations(documents, limit, offset, answer, fault) ==
    LET ret == ObservationRepositoryGetAll(documents, limit, offset, answer, fault)
    IN  [value |-> IF ret.err # Nil THEN Nil ELSE Some(ObservationsToFHIR(ret.value[1])),
         err   |-> ret.err, documents |-> ret.documents, db |-> ret.db,
         repo  |-> << RepositoryCall("GetAll", << limit, offset >>, ret) >>]

\* UpdateObservation: the record handed to the repository
UpdateObservationDomainObservation(observationID, fhirObservation, now) ==
    [ObservationFromFHIR(fhirObservation, now) EXCEPT !.ID = observationID]

\* Update once the record handed to the repository is built
UpdateObservationRecord(documents, observation, stored, fault) ==
    LET ret == ObservationRepositoryUpdate(documents, observation, stored, fault)
    IN  [value |-> IF ret.err # Nil THEN Nil ELSE Some(ObservationToFHIR(ret.value[1])),
         err   |-> ret.err, documents |-> ret.documents, db |-> ret.db,
         repo  |-> << RepositoryCall("Update", observation, ret) >>]

UpdateObservation(documents, observationID, fhirObservation, now, stored, fault) ==
    UpdateObservationRecord(documents,
        UpdateObservationDomainObservation(observationID, fhirObservation, now),
        stored, fault)

SearchObservations(documents, searchParams, answer, fault) ==
    LET ret == ObservationRepositorySearch(documents, searchParams, answer, fault)
    IN  [value |-> IF ret.err # Nil THEN Nil ELSE Some(ObservationsToFHIR(ret.value[1])),
         err   |-> ret.err, documents |-> ret.documents, db |-> ret.db,
         repo  |-> << RepositoryCall("Search", searchParams, ret) >>]

DeleteObservation(documents, observationID, fault) ==
    LET ret == ObservationRepositoryDelete(documents, observationID, fault)
    IN  [value |-> Nil, err |-> ret.err, documents |-> ret.documents, db |-> ret.db,
         repo  |-> << RepositoryCall("Delete", observationID, ret) >>]

(***************************************************************************)
(* Calls of the services.                                                  *)
(***************************************************************************)
\* ids given to the point operations: the ids of stored patients, and a text
\* that is no uuid
PatientIDs == { PatientRowID(n) : n \in 1..MaxRecords } \cup { <<"p","1">> }

\* ids given to the point operations: the hex forms of generated ids, and a
\* text that is no hex form
ObservationIDs == { ObjectIDHex(NewObjectID(n)) : n \in 1..MaxRecords } \cup { <<"o","b","s","-","1">> }

\* limit and offset of the listings
ListPages == { <<100, 0>>, <<1, 0>> }

ServicePatientSearches == { NoFilters, [NoFilters EXCEPT !.Active = Some(TRUE)] }

ServiceObservationSearches ==
    { NoObservationFilters, [NoObservationFilters EXCEPT !.PatientID = <<"a","b","c">>] }

\* the wire Patients given to UpdatePatient
UpdateWirePatients ==
    { [Id |-> Nil, Active |-> active,
       Name |-> << [Family |-> Some("Jones"), Given |-> << "Ann" >>] >>,
       Gender |-> Nil, BirthDate |-> Nil, Identifier |-> <<>>] :
        active \in { Nil, Some(TRUE), Some(FALSE) } }

WirePositive ==
    [Id |-> Nil, Status |-> ObservationStatusFinal, Category |-> <<>>,
     Code |-> [Coding |-> << LoincCoding >>],
     Subject |-> Some([Reference |-> Some(PatientReferencePrefix \o <<"a","b","c">>)]),
     EffectiveDateTime |-> Nil, Issued |-> Nil, ValueQuantity |-> Nil,
     ValueString |-> Some("positive"), Component |-> <<>>]

\* the wire Observations given to CreateObservation: without an id, with an
\* id that is no hex form, and with the id of a resource that the server
\* returned before
ServiceWireObservations ==
    { WirePositive,
      [WirePositive EXCEPT !.Id = Some(<<"o","b","s","-","1">>)],
      [WirePositive EXCEPT !.Id = Some(ObjectIDHex(NewObjectID(1)))] }

\* the wire Observations given to UpdateObservation
UpdateWireObservations ==
    { [WirePositive EXCEPT !.ValueString = Some("negative"), !.Subject = Nil] }

\* the readings of the clock in the mapper, and in Update
ServiceInstants == { <<1, 1, 1>> }

UpdateClock == { 3 }

GetPatientByIDCall ==
    /\ call = NoCall
    /\ UNCHANGED requests
    /\ \E patientID \in PatientIDs, fault \in StorageFaults :
        LET ret == GetPatientByID(patients, patientID, fault)
        IN  /\ call' = [op |-> "GetPatientByID", arg |-> patientID]
            /\ result' = [value |-> ret.value, err |-> ret.err]
            /\ repoLog' = ret.repo
            /\ dbLog' = ret.db
            /\ UNCHANGED <<patients, observations, issued>>

GetAllPatientsCall ==
    /\ call = NoCall
    /\ UNCHANGED requests
    /\ \E page \in ListPages, fault \in StorageFaults :
        \E answer \in IF fault = Nil
                      THEN PgSelect(patients, PatientGetAllQuery(page[1], page[2]))
                      ELSE { <<>> } :
            LET ret == GetAllPatients(patients, page[1], page[2], answer, fault)
            IN  /\ call' = [op |-> "GetAllPatients", arg |-> page]
                /\ result' = [value |-> ret.value, err |-> ret.err]
                /\ repoLog' = ret.repo
                /\ dbLog' = ret.db
                /\ UNCHANGED <<patients, observations, issued>>

UpdatePatientCall ==
    /\ call = NoCall
    /\ UNCHANGED requests
    /\ \E patientID \in PatientIDs, fhirPatient \in UpdateWirePatients,
          now \in UpdateClock, fault \in StorageFaults :
        LET ret == UpdatePatient(patients, patientID, fhirPatient, now, fault)
        IN  /\ call' = [op |-> "UpdatePatient", arg |-> << patientID, fhirPatient >>]
            /\ result' = [value |-> ret.value, err |-> ret.err]
            /\ patients' = ret.rows
            /\ repoLog' = ret.repo
            /\ dbLog' = ret.db
            /\ UNCHANGED <<observations, issued>>

SearchPatientsCall ==
    /\ call = NoCall
    /\ UNCHANGED requests
    /\ \E searchParams \in ServicePatientSearches, fault \in StorageFaults :
        \E answer \in IF fault = Nil
                      THEN PgSelect(patients, PatientSearchQuery(searchParams))
                      ELSE { <<>> } :
            LET ret == SearchPatients(patients, searchParams, answer, fault)
            IN  /\ call' = [op |-> "SearchPatients", arg |-> searchParams]
                /\ result' = [value |-> ret.value, err |-> ret.err]
                /\ repoLog' = ret.repo
                /\ dbLog' = ret.db
                /\ UNCHANGED <<patients, observations, issued>>

DeletePatientCall ==
    /\ call = NoCall
    /\ UNCHANGED requests
    /\ \E patientID \in PatientIDs, fault \in StorageFaults :
        LET ret == DeletePatient(patients, patientID, fault)
        IN  /\ call' = [op |-> "DeletePatient", arg |-> patientID]
            /\ result' = [value |-> ret.value, err |-> ret.err]
            /\ patients' = ret.rows
            /\ repoLog' = ret.repo
            /\ dbLog' = ret.db
            /\ UNCHANGED <<observations, issued>>

CreateObservationCall ==
    /\ call = NoCall
    /\ UNCHANGED requests
    /\ \E fhirObservation \in ServiceWireObservations, now \in ServiceInstants,
          stored \in CreateInstants, fault \in StorageFaults :
        LET objectID == NewObjectID(issued.observations + 1)
            ret      == CreateObservation(observations, fhirObservation, objectID, now,
                                          stored, fault)
        IN  /\ ret.err = Nil => issued.patients + issued.observations < MaxRecords
            /\ call' = [op |-> "CreateObservation", arg |-> fhirObservation]
            /\ result' = [value |-> ret.value, err |-> ret.err]
            /\ observations' = ret.documents
            /\ issued' = IF ret.err = Nil THEN [issued EXCEPT !.observations = @ + 1]
                         ELSE issued
            /\ repoLog' = ret.repo
            /\ dbLog' = ret.db
            /\ UNCHANGED patients

GetObservationByIDCall ==
    /\ call = NoCall
    /\ UNCHANGED requests
    /\ \E observationID \in ObservationIDs, fault \in StorageFaults :
        LET ret == GetObservationByID(observations, observationID, fault)
        IN  /\ call' = [op |-> "GetObservationByID", arg |-> observationID]
            /\ result' = [value |-> ret.value, err |-> ret.err]
            /\ repoLog' = ret.repo
            /\ dbLog' = ret.db
            /\ UNCHANGED <<patients, observations, issued>>

GetObservationsByPatientIDCall ==
    /\ call = NoCall
    /\ UNCHANGED requests
    /\ \E patientID \in { <<"a","b","c">>, <<"x","y","z">> }, page \in ListPages, fault \in StorageFaults :
        \E answer \in IF fault = Nil
                      THEN MongoFind(observations, Put(EmptyM, "patient_id", patientID),
                                     ListFindOptions(page[1], page[2]))
                      ELSE { <<>> } :
            LET ret == GetObservationsByPatientID(observations, patientID, page[1], page[2],
                                                  answer, fault)
            IN  /\ call' = [op |-> "GetObservationsByPatientID", arg |-> << patientID, page >>]
                /\ result' = [value |-> ret.value, err |-> ret.err]
                /\ repoLog' = ret.repo
                /\ dbLog' = ret.db
                /\ UNCHANGED <<patients, observations, issued>>

GetAllObservationsCall ==
    /\ call = NoCall
    /\ UNCHANGED requests
    /\ \E page \in ListPages, fault \in StorageFaults :
        \E answer \in IF fault = Nil
                      THEN MongoFind(observations, EmptyM, ListFindOptions(page[1], page[2]))
                      ELSE { <<>> } :
            LET ret == GetAllObservations(observations, page[1], page[2], answer, fault)
            IN  /\ call' = [op |-> "GetAllObservations", arg |-> page]
                /\ result' = [value |-> ret.value, err |-> ret.err]
                /\ repoLog' = ret.repo
                /\ dbLog' = ret.db
                /\ UNCHANGED <<patients, observations, issued>>

UpdateObservationCall ==
    /\ call = NoCall
    /\ UNCHANGED requests
    /\ \E observationID \in ObservationIDs, fhirObservation \in UpdateWireObservations,
          now \in ServiceInstants, stored \in UpdateClock, fault \in StorageFaults :
        LET ret == UpdateObservation(observations, observationID, fhirObservation, now,
                                     stored, fault)
        IN  /\ call' = [op |-> "UpdateObservation",
                        arg |-> << observationID, fhirObservation >>]
            /\ result' = [value |-> ret.value, err |-> ret.err]
            /\ observations' = ret.documents
            /\ repoLog' = ret.repo
            /\ dbLog' = ret.db
            /\ UNCHANGED <<patients, issued>>

SearchObservationsCall ==
    /\ call = NoCall
    /\ UNCHANGED requests
    /\ \E searchParams \in ServiceObservationSearches, fault \in StorageFaults :
        \E answer \in IF fault = Nil
                      THEN MongoFind(observations, ObservationSearchFilter(searchParams),
                                     ObservationFindOptions(searchParams))
                      ELSE { <<>> } :
            LET ret == SearchObservations(observations, searchParams, answer, fault)
            IN  /\ call' = [op |-> "SearchObservations", arg |-> searchParams]
                /\ result' = [value |-> ret.value, err |-> ret.err]
                /\ repoLog' = ret.repo
                /\ dbLog' = ret.db
                /\ UNCHANGED <<patients, observations, issued>>

DeleteObservationCall ==
    /\ call = NoCall
    /\ UNCHANGED requests
    /\ \E observationID \in ObservationIDs, fault \in StorageFaults :
        LET ret == DeleteObservation(observations, observationID, fault)
        IN  /\ call' = [op |-> "DeleteObservation", arg |-> observationID]
            /\ result' = [value |-> ret.value, err |-> ret.err]
            /\ observations' = ret.documents
            /\ repoLog' = ret.repo
            /\ dbLog' = ret.db
            /\ UNCHANGED <<patients, issued>>

NextServices ==
    \/ CreatePatientCall \/ GetPatientByIDCall \/ GetAllPatientsCall \/ UpdatePatientCall
    \/ SearchPatientsCall \/ DeletePatientCall
    \/ CreateObservationCall \/ GetObservationByIDCall \/ GetObservationsByPatientIDCall
    \/ GetAllObservationsCall \/ UpdateObservationCall \/ SearchObservationsCall
    \/ DeleteObservationCall
    \/ Return

SpecServices == Init /\ [][NextServices]_vars

(***************************************************************************)
(* The handlers (handlers.PatientHandler, handlers.ObservationHandler).    *)
(* A request body is <<>> when it is not the JSON of the resource, else    *)
(* the decoded resource.  A response is its status and its body; the body  *)
(* of an error response is the code of the AppError.                       *)
(***************************************************************************)
StatusOK == 200

StatusCreated == 201

StatusNoContent == 204

StatusBadRequest == 400

StatusNotFound == 404

StatusInternalServerError == 500

\* apperrors.NotFound
NotFound == [StatusCode |-> StatusNotFound, Code |-> "RESOURCE_NOT_FOUND"]

\* apperrors.ValidationError
ValidationError == [StatusCode |-> StatusBadRequest, Code |-> "VALIDATION_ERROR"]

\* apperrors.InvalidInput
InvalidInput == [StatusCode |-> StatusBadRequest, Code |-> "INVALID_INPUT"]

\* apperrors.Internal
Internal == [StatusCode |-> StatusInternalServerError, Code |-> "INTERNAL_ERROR"]

\* middleware.WriteError for an AppError, before any call of the service
WriteErrorEarly(appErr, store) ==
    [status |-> appErr.StatusCode, body |-> appErr.Code, store |-> store,
     db |-> <<>>, repo |-> <<>>]

\* middleware.WriteError for an AppError, after the call of the service
WriteError(appErr, store, ret) ==
    [status |-> appErr.StatusCode, body |-> appErr.Code, store |-> store,
     db |-> ret.db, repo |-> ret.repo]

\* WriteHeader and Encode, after the call of the service
WriteResponse(status, value, store, ret) ==
    [status |-> status, body |-> value, store |-> store, db |-> ret.db, repo |-> ret.repo]

\* the end of a Patient handler once the service has answered: the error
\* response appErr, or the status and the encoded value
PatientHandlerRespond(appErr, status, ret) ==
    IF ret.err # Nil THEN WriteError(appErr, ret.rows, ret)
    ELSE WriteResponse(status, ret.value[1], ret.rows, ret)

PatientHandlerCreate(rows, body, id, now, fault) ==
    IF body = Nil THEN WriteErrorEarly(InvalidInput, rows)
    ELSE PatientHandlerRespond(Internal, StatusCreated,
                               CreatePatient(rows, body[1], id, now, fault))

PatientHandlerGetByID(rows, patientID, fault) ==
    IF patientID = <<>> THEN WriteErrorEarly(ValidationError, rows)
    ELSE PatientHandlerRespond(NotFound, StatusOK, GetPatientByID(rows, patientID, fault))

\* GetAll once the query is parsed: parsed is what the parser returned and
\* answer the answer of the database to the query of the search
PatientHandlerGetAllParsed(rows, parsed, answer, fault) ==
    IF parsed.err # Nil THEN WriteErrorEarly(ValidationError, rows)
    ELSE PatientHandlerRespond(Internal, StatusOK,
                               SearchPatients(rows, parsed.params[1], answer, fault))

PatientHandlerGetAll(rows, query, answer, fault) ==
    PatientHandlerGetAllParsed(rows, ParsePatientSearchParams(query), answer, fault)

PatientHandlerUpdate(rows, patientID, body, now, fault) ==
    IF patientID = <<>> THEN WriteErrorEarly(ValidationError, rows)
    ELSE IF body = Nil THEN WriteErrorEarly(InvalidInput, rows)
    ELSE IF body[1].Id # Nil /\ body[1].Id[1] # patientID
    THEN WriteErrorEarly(ValidationError, rows)
    ELSE PatientHandlerRespond(Internal, StatusOK,
                               UpdatePatient(rows, patientID, body[1], now, fault))

PatientHandlerDelete(rows, patientID, fault) ==
    IF patientID = <<>> THEN WriteErrorEarly(ValidationError, rows)
    ELSE LET ret == DeletePatient(rows, patientID, fault)
         IN  IF ret.err # Nil THEN WriteError(NotFound, ret.rows, ret)
             ELSE WriteResponse(StatusNoContent, Nil, ret.rows, ret)

\* the end of an Observation handler once the service has answered
ObservationHandlerRespond(appErr, status, ret) ==
    IF ret.err # Nil THEN WriteError(appErr, ret.documents, ret)
    ELSE WriteResponse(status, ret.value[1], ret.documents, ret)

ObservationHandlerCreate(documents, body, objectID, now, stored, fault) ==
    IF body = Nil THEN WriteErrorEarly(InvalidInput, documents)
    ELSE ObservationHandlerRespond(Internal, StatusCreated,
             CreateObservation(documents, body[1], objectID, now, stored, fault))

ObservationHandlerGetByID(documents, observationID, fault) ==
    IF observationID = <<>> THEN WriteErrorEarly(ValidationError, documents)
    ELSE ObservationHandlerRespond(NotFound, StatusOK,
                                   GetObservationByID(documents, observationID, fault))

\* the default pagination of the Observation listings
ObservationListLimit == 100

ObservationListOffset == 0

ObservationHandlerGetByPatientID(documents, query, answer, fault) ==
    IF Get(query, "patient") = <<>> THEN WriteErrorEarly(ValidationError, documents)
    ELSE ObservationHandlerRespond(Internal, StatusOK,
             GetObservationsByPatientID(documents, Get(query, "patient"),
                                        ObservationListLimit, ObservationListOffset,
                                        answer, fault))

\* r.URL.Query().Has
Has(q, key) == \E i \in 1..Len(q) : q[i][1] = key

ObservationHandlerGetAll(documents, query, answer, fault) ==
    IF Has(query, "patient") THEN ObservationHandlerGetByPatientID(documents, query, answer, fault)
    ELSE ObservationHandlerRespond(Internal, StatusOK,
             GetAllObservations(documents, ObservationListLimit, ObservationListOffset,
                                answer, fault))

\* the filter of the Find that GetAll leads to
ObservationHandlerGetAllFilter(query) ==
    IF Has(query, "patient") THEN Put(EmptyM, "patient_id", Get(query, "patient")) ELSE EmptyM

(***************************************************************************)
(* Requests given to the handlers.                                         *)
(***************************************************************************)
\* request bodies: no JSON of the resource, or a wire resource
PatientBodies ==
    { Nil } \cup { Some(w) : w \in { p \in ServiceWirePatients : p.Id = Nil /\ p.Active = Nil } }

PatientUpdateBodies ==
    { Nil } \cup { Some(w) : w \in UpdateWirePatients } \cup
    { Some([w EXCEPT !.Id = Some(PatientRowID(1))]) : w \in UpdateWirePatients }

ObservationBodies == { Nil } \cup { Some(w) : w \in ServiceWireObservations }

\* the id of the path, also the empty one
PatientPathIDs == PatientIDs \cup { <<>> }

ObservationPathIDs == ObservationIDs \cup { <<>> }

PatientListQueries ==
    { <<>>, << << "active", <<"t","r","u","e">> >> >>, << << "_count", <<"1">> >> >> }

ObservationListQueries ==
    { <<>>, << << "patient", <<"a","b","c">> >> >>, << << "patient", <<>> >> >> }

PatientHandlerCreateCall ==
    /\ call = NoCall
    /\ UNCHANGED requests
    /\ \E body \in PatientBodies, now \in StorageClock, fault \in StorageFaults :
        LET id  == PatientRowID(issued.patients + 1)
            ret == PatientHandlerCreate(patients, body, id, now, fault)
        IN  /\ ret.status = StatusCreated =>
                  issued.patients + issued.observations < MaxRecords
            /\ call' = [op |-> "PatientHandler.Create", arg |-> body]
            /\ result' = [status |-> ret.status, body |-> ret.body]
            /\ patients' = ret.store
            /\ issued' = IF ret.status = StatusCreated
                         THEN [issued EXCEPT !.patients = @ + 1] ELSE issued
            /\ repoLog' = ret.repo
            /\ dbLog' = ret.db
            /\ UNCHANGED observations

PatientHandlerGetByIDCall ==
    /\ call = NoCall
    /\ UNCHANGED requests
    /\ \E patientID \in PatientPathIDs, fault \in StorageFaults :
        LET ret == PatientHandlerGetByID(patients, patientID, fault)
        IN  /\ call' = [op |-> "PatientHandler.GetByID", arg |-> patientID]
            /\ result' = [status |-> ret.status, body |-> ret.body]
            /\ repoLog' = ret.repo
            /\ dbLog' = ret.db
            /\ UNCHANGED <<patients, observations, issued>>

PatientHandlerGetAllCall ==
    /\ call = NoCall
    /\ UNCHANGED requests
    /\ \E query \in PatientListQueries, fault \in StorageFaults :
        \E answer \in IF fault = Nil
                      THEN PgSelect(patients,
                              PatientSearchQuery(ParsePatientSearchParams(query).params[1]))
                      ELSE { <<>> } :
            \E ret \in { PatientHandlerGetAll(patients, query, answer, fault) } :
                /\ call' = [op |-> "PatientHandler.GetAll", arg |-> query]
                /\ result' = [status |-> ret.status, body |-> ret.body]
                /\ repoLog' = ret.repo
                /\ dbLog' = ret.db
                /\ UNCHANGED <<patients, observations, issued>>

PatientHandlerUpdateCall ==
    /\ call = NoCall
    /\ UNCHANGED requests
    /\ \E patientID \in PatientPathIDs, body \in PatientUpdateBodies,
          now \in UpdateClock, fault \in StorageFaults :
        LET ret == PatientHandlerUpdate(patients, patientID, body, now, fault)
        IN  /\ call' = [op |-> "PatientHandler.Update", arg |-> << patientID, body >>]
            /\ result' = [status |-> ret.status, body |-> ret.body]
            /\ patients' = ret.store
            /\ repoLog' = ret.repo
            /\ dbLog' = ret.db
            /\ UNCHANGED <<observations, issued>>

PatientHandlerDeleteCall ==
    /\ call = NoCall
    /\ UNCHANGED requests
    /\ \E patientID \in PatientPathIDs, fault \in StorageFaults :
        LET ret == PatientHandlerDelete(patients, patientID, fault)
        IN  /\ call' = [op |-> "PatientHandler.Delete", arg |-> patientID]
            /\ result' = [status |-> ret.status, body |-> ret.body]
            /\ patients' = ret.store
            /\ repoLog' = ret.repo
            /\ dbLog' = ret.db
            /\ UNCHANGED <<observations, issued>>

ObservationHandlerCreateCall ==
    /\ call = NoCall
    /\ UNCHANGED requests
    /\ \E body \in ObservationBodies, now \in ServiceInstants, stored \in CreateInstants,
          fault \in StorageFaults :
        LET objectID == NewObjectID(issued.observations + 1)
            ret      == ObservationHandlerCreate(observations, body, objectID, now,
                                                 stored, fault)
        IN  /\ ret.status = StatusCreated =>
                  issued.patients + issued.observations < MaxRecords
            /\ call' = [op |-> "ObservationHandler.Create", arg |-> body]
            /\ result' = [status |-> ret.status, body |-> ret.body]
            /\ observations' = ret.store
            /\ issued' = IF ret.status = StatusCreated
                         THEN [issued EXCEPT !.observations = @ + 1] ELSE issued
            /\ repoLog' = ret.repo
            /\ dbLog' = ret.db
            /\ UNCHANGED patients

ObservationHandlerGetByIDCall ==
    /\ call = NoCall
    /\ UNCHANGED requests
    /\ \E observationID \in ObservationPathIDs, fault \in StorageFaults :
        LET ret == ObservationHandlerGetByID(observations, observationID, fault)
        IN  /\ call' = [op |-> "ObservationHandler.GetByID", arg |-> observationID]
            /\ result' = [status |-> ret.status, body |-> ret.body]
            /\ repoLog' = ret.repo
            /\ dbLog' = ret.db
            /\ UNCHANGED <<patients, observations, issued>>

ObservationHandlerGetAllCall ==
    /\ call = NoCall
    /\ UNCHANGED requests
    /\ \E query \in ObservationListQueries, fault \in StorageFaults :
        \E answer \in IF fault = Nil
                      THEN MongoFind(observations, ObservationHandlerGetAllFilter(query),
                                     ListFindOptions(ObservationListLimit,
                                                     ObservationListOffset))
                      ELSE { <<>> } :
            LET ret == ObservationHandlerGetAll(observations, query, answer, fault)
            IN  /\ call' = [op |-> "ObservationHandler.GetAll", arg |-> query]
                /\ result' = [status |-> ret.status, body |-> ret.body]
                /\ repoLog' = ret.repo
                /\ dbLog' = ret.db
                /\ UNCHANGED <<patients, observations, issued>>

NextHandlers ==
    \/ PatientHandlerCreateCall \/ PatientHandlerGetByIDCall \/ PatientHandlerGetAllCall
    \/ PatientHandlerUpdateCall \/ PatientHandlerDeleteCall
    \/ ObservationHandlerCreateCall \/ ObservationHandlerGetByIDCall
    \/ ObservationHandlerGetAllCall
    \/ Return

SpecHandlers == Init /\ [][NextHandlers]_vars

(***************************************************************************)
(* Domain observations given to the mapper, as a service hands them over   *)
(* after a read of the repository.                                         *)
(***************************************************************************)
\* the four status strings the mapper names, the empty one, and others
DomainObservationStatuses ==
    { "", "registered", "preliminary", "final", "amended", "corrected", "unknown", "Final" }

DomainObservations ==
    [ID : { <<>>, <<"o","b","s","-","1">> }, PatientID : { <<>>, <<"p","1">> },
     Status : DomainObservationStatuses, Category : { "", "vital-signs" },
     Code : { "8480-6" }, CodeSystem : { "http://loinc.org" }, CodeDisplay : { "" },
     ValueQuantity : { Nil, Some([neg |-> FALSE, int |-> <<"9","8">>, frac |-> <<"6">>]) },
     ValueUnit : { "degF" }, ValueString : { "", "positive" },
     EffectiveDate : { Nil, Some(DateTime(2024, 1, 15, 10, 30, 0)) },
     IssuedDate : { [parsed |-> Nil, instant |-> 1] },
     Components : { <<>> }, CreatedAt : { 1 }, UpdatedAt : { 1 }]

\* a service maps a domain Observation to the wire
ObservationToFHIRCall ==
    /\ call = NoCall
    /\ UNCHANGED requests
    /\ \E observation \in DomainObservations :
        /\ call' = [op |-> "ObservationToFHIR", arg |-> observation]
        /\ result' = ObservationToFHIR(observation)
        /\ UNCHANGED <<patients, observations, issued, repoLog, dbLog>>

NextObservationToFHIR == ObservationToFHIRCall \/ Return

SpecObservationToFHIR == Init /\ [][NextObservationToFHIR]_vars

(***************************************************************************)
(* The validator of the FHIR middleware (validatePatient).                 *)
(***************************************************************************)
\* the loop over the name entries: some entry has a non-empty family name
\* or a non-empty given name
hasValidName(patient) ==
    \E i \in 1..Len(patient.Name) :
        \/ patient.Name[i].Family # Nil /\ patient.Name[i].Family[1] # ""
        \/ \E j \in 1..Len(patient.Name[i].Given) : patient.Name[i].Given[j] # ""

\* validatePatient: the error, <<>> when the resource is accepted
validatePatient(patient) ==
    IF Len(patient.Name) = 0 THEN Some("Patient must have at least one name")
    ELSE IF ~hasValidName(patient) THEN Some("Patient name must have family or given name")
    ELSE Nil

(***************************************************************************)
(* Concurrent writes.  net/http serves every request on its own goroutine; *)
(* a repository holds only the connection pool or the collection, so what  *)
(* a call computes before and after its statement is its own, and the one  *)
(* statement of a call (UPDATE, DELETE, UpdateOne, DeleteOne) is the step  *)
(* at which calls meet.  The storage executes each statement atomically.   *)
(***************************************************************************)
\* number of Update and Delete calls made concurrently
MaxRequests == 3

PatientWrites == { "PatientRepository.Update", "PatientRepository.Delete" }

ObservationWrites == { "ObservationRepository.Update", "ObservationRepository.Delete" }

\* the ids the stores have given out so far
IssuedIDs(op) ==
    IF op \in PatientWrites
    THEN { PatientRowID(n) : n \in 1..issued.patients }
    ELSE { ObjectIDHex(NewObjectID(n)) : n \in 1..issued.observations }

\* the record an Update call is given
WriteRecord(op, id) ==
    IF op \in PatientWrites
    THEN [ZeroPatient EXCEPT !.ID = id, !.FamilyName = <<"B","r","o","w","n">>, !.GivenName = <<"E","v","e">>,
                             !.Gender = <<"o","t","h","e","r">>, !.Active = TRUE]
    ELSE [ZeroObservation EXCEPT !.ID = id, !.PatientID = <<"a","b","c">>,
                                 !.Status = <<"c","o","r","r","e","c","t","e","d">>, !.Code = <<"2","3","3","9","-","0">>]

\* the number of statements executed by the concurrent calls
Executed == Cardinality({ r \in 1..Len(requests) : requests[r].pc = "returned" })

\* an Update(id) or a Delete(id) is called: the call is at its statement
WriteCall ==
    /\ Len(requests) < MaxRequests
    /\ \E op \in PatientWrites \cup ObservationWrites :
        \E id \in IssuedIDs(op) :
            requests' = Append(requests, [op |-> op, id |-> id, pc |-> "statement",
                                          err |-> Nil, at |-> 0])
    /\ UNCHANGED <<call, result, patients, observations, issued, repoLog, dbLog>>

\* the statement of a call of the Patient repository, and its return
PatientWriteStatement ==
    \E r \in 1..Len(requests), now \in UpdateClock, fault \in StorageFaults :
        /\ requests[r].pc = "statement"
        /\ requests[r].op \in PatientWrites
        /\ \E ret \in { IF requests[r].op = "PatientRepository.Update"
                        THEN PatientRepositoryUpdate(patients,
                                 WriteRecord(requests[r].op, requests[r].id), now, fault)
                        ELSE PatientRepositoryDelete(patients, requests[r].id, fault) } :
              /\ patients' = ret.rows
              /\ requests' = [requests EXCEPT ![r].pc = "returned", ![r].err = ret.err,
                                              ![r].at = Executed + 1]
        /\ UNCHANGED <<call, result, observations, issued, repoLog, dbLog>>

\* the statement of a call of the Observation repository, and its return
ObservationWriteStatement ==
    \E r \in 1..Len(requests), now \in UpdateClock, fault \in StorageFaults :
        /\ requests[r].pc = "statement"
        /\ requests[r].op \in ObservationWrites
        /\ \E ret \in { IF requests[r].op = "ObservationRepository.Update"
                        THEN ObservationRepositoryUpdate(observations,
                                 WriteRecord(requests[r].op, requests[r].id), now, fault)
                        ELSE ObservationRepositoryDelete(observations, requests[r].id,
                                                         fault) } :
              /\ observations' = ret.documents
              /\ requests' = [requests EXCEPT ![r].pc = "returned", ![r].err = ret.err,
                                              ![r].at = Executed + 1]
        /\ UNCHANGED <<call, result, patients, issued, repoLog, dbLog>>

\* the stores when the calls begin: each holds one record, stored by Create
\* (an inactive patient, an observation without effective date)
InitStored ==
    /\ call = NoCall
    /\ result = <<>>
    /\ \E patient \in { p \in StoredPatients : ~p.Active }, now \in StorageClock :
          patients = PatientRepositoryCreate(<<>>, patient, PatientRowID(1), now, Nil).rows
    /\ \E observation \in { o \in StoredObservations : o.EffectiveDate = Nil },
          now \in CreateInstants :
          observations = ObservationRepositoryCreate(<<>>, observation, NewObjectID(1),
                                                     now, Nil).documents
    /\ issued = [patients |-> 1, observations |-> 1]
    /\ repoLog = <<>>
    /\ dbLog = <<>>
    /\ requests = <<>>

NextConcurrentWrites == WriteCall \/ PatientWriteStatement \/ ObservationWriteStatement

SpecConcurrentWrites == InitStored /\ [][NextConcurrentWrites]_vars

(***************************************************************************)
(* Concurrent requests through the core.  A search request parses its      *)
(* query string into a PatientSearchParams of its own and hands it through *)
(* the service to Search, which compiles it; a create request maps its     *)
(* body into a domain record of its own and the service sets the default.  *)
(* The handler, the service, the mapper and the repository are shared and  *)
(* are not written after construction; no package of the core declares a   *)
(* variable.  Every step below is a step of one goroutine.                 *)
(***************************************************************************)
\* the query strings and the bodies of the concurrent requests
ConcurrentQueries ==
    { <<>>,
      << << "family", <<"S","m","i","t","h">> >> >>,
      << << "gender", <<"m","a","l","e">> >>, << "_sort", <<"-","b","i","r","t","h","d","a","t","e">> >> >>,
      << << "active", <<"t","r","u","e">> >>, << "_count", <<"5">> >> >> }

ConcurrentBodies == { w \in ServiceWirePatients : w.Id = Nil /\ w.Name # <<>> }

\* a request that has arrived: its input, and nothing computed yet
NewRequest(op, input) ==
    [op |-> op, input |-> input, searchParams |-> Nil, query |-> Nil, domain |-> Nil,
     pc |-> IF op = "PatientHandler.GetAll" THEN "parse" ELSE "map"]

\* the variables of the goroutine that serves request r
RequestLocals_Shared(table, r) ==
    IF table[1].searchParams # Nil
    THEN [table[r] EXCEPT !.searchParams = table[1].searchParams]
    ELSE table[r]

RequestLocals(table, r) == table[r]

\* net/http starts a goroutine for a request
RequestArrives ==
    /\ Len(requests) < MaxRequests
    /\ \/ \E q \in ConcurrentQueries :
            requests' = Append(requests, NewRequest("PatientHandler.GetAll", q))
       \/ \E fhirPatient \in ConcurrentBodies :
            requests' = Append(requests, NewRequest("PatientHandler.Create", fhirPatient))
    /\ UNCHANGED <<call, result, patients, observations, issued, repoLog, dbLog>>

\* GetAll: searchParams, parseError := utils.ParsePatientSearchParams(r)
RequestParses ==
    \E r \in 1..Len(requests) :
        /\ requests[r].pc = "parse"
        /\ requests' = [requests EXCEPT
              ![r].searchParams =
                  ParsePatientSearchParams(RequestLocals(requests, r).input).params,
              ![r].pc = "compile"]
        /\ UNCHANGED <<call, result, patients, observations, issued, repoLog, dbLog>>

\* SearchPatients hands the parameters to Search, which builds the query
RequestCompiles ==
    \E r \in 1..Len(requests) :
        /\ requests[r].pc = "compile"
        /\ requests' = [requests EXCEPT
              ![r].query =
                  Some(PatientSearchQuery(RequestLocals(requests, r).searchParams[1])),
              ![r].pc = "returned"]
        /\ UNCHANGED <<call, result, patients, observations, issued, repoLog, dbLog>>

\* CreatePatient: domainPatient := service.patientMapper.FromFHIR(fhirPatient)
RequestMaps ==
    \E r \in 1..Len(requests) :
        /\ requests[r].pc = "map"
        /\ requests' = [requests EXCEPT
              ![r].domain = Some(PatientFromFHIR(RequestLocals(requests, r).input)),
              ![r].pc = "default"]
        /\ UNCHANGED <<call, result, patients, observations, issued, repoLog, dbLog>>

\* CreatePatient: if fhirPatient.Active == nil { domainPatient.Active = true }
RequestDefaults ==
    \E r \in 1..Len(requests) :
        /\ requests[r].pc = "default"
        /\ requests' = [requests EXCEPT
              ![r].domain =
                  IF RequestLocals(requests, r).input.Active = Nil
                  THEN Some([RequestLocals(requests, r).domain[1] EXCEPT !.Active = TRUE])
                  ELSE RequestLocals(requests, r).domain,
              ![r].pc = "returned"]
        /\ UNCHANGED <<call, result, patients, observations, issued, repoLog, dbLog>>

NextConcurrentRequests ==
    RequestArrives \/ RequestParses \/ RequestCompiles \/ RequestMaps \/ RequestDefaults

SpecConcurrentRequests == Init /\ [][NextConcurrentRequests]_vars

(***************************************************************************)
(* Properties of the parsers.                                              *)
(***************************************************************************)
IsPatientParse == call.op = "ParsePatientSearchParams"

IsObservationParse == call.op = "ParseObservationSearchParams"

IsParse == IsPatientParse \/ IsObservationParse

\* the parameters the open call returned
Params == result.params[1]

AllBirthdateAbsent(p) ==
    p.BirthDate = Nil /\ p.BirthDateGreaterThan = Nil /\ p.BirthDateLessThan = Nil

\* the query without the pairs of one key
WithoutKey(q, key) == SelectSeq(q, LAMBDA pair : pair[1] # key)

\* C1, as claimed: after either parser, Limit is N when _count is a decimal
\* integer N in 1..100, 100 when N > 100, and 10 when _count is absent,
\* empty, non-numeric, zero or negative; so Limit is in 1..100.
C1_LimitFollowsCount ==
    IsParse =>
        LET v == Get(call.arg, "_count")
        IN  /\ \A c \in DecimalCounts :
                 v = c.text =>
                    /\ c.range = "in" => Params.Limit = c.n
                    /\ c.range = "over" => Params.Limit = 100
                    /\ c.range = "low" => Params.Limit = 10
            /\ (v = <<>> \/ v \in NonNumericCounts) => Params.Limit = 10
            /\ Params.Limit \in 1..100

\* C2: a birthdate whose date part parses sets exactly one of the three
\* birth-date filters, chosen by the prefix, to that date; a birthdate whose
\* date part does not parse sets none.
C2_BirthdateSetsOneFilter ==
    IsPatientParse =>
        LET v == Get(call.arg, "birthdate")
        IN  /\ \A g \in GoodDateInputs :
                 v = g.prefix \o g.text =>
                    IF g.prefix \in { <<"g","e">>, <<"g","t">> }
                    THEN /\ Params.BirthDateGreaterThan = Some(g.time)
                         /\ Params.BirthDate = Nil
                         /\ Params.BirthDateLessThan = Nil
                    ELSE IF g.prefix \in { <<"l","e">>, <<"l","t">> }
                    THEN /\ Params.BirthDateLessThan = Some(g.time)
                         /\ Params.BirthDate = Nil
                         /\ Params.BirthDateGreaterThan = Nil
                    ELSE /\ Params.BirthDate = Some(g.time)
                         /\ Params.BirthDateGreaterThan = Nil
                         /\ Params.BirthDateLessThan = Nil
            /\ v \in BadDateValues => AllBirthdateAbsent(Params)

\* a lower bound and an exact date have each been parsed from a birthdate
C2_Witness ==
    /\ IsPatientParse
    /\ Get(call.arg, "birthdate") = <<"g","e">> \o FormatLayoutDate(Date(1990, 1, 1))
    /\ Params.BirthDateGreaterThan = Some(Date(1990, 1, 1))
    /\ Params.BirthDate = Nil

\* the value of a key cannot be parsed
Unparsable(q, key) ==
    LET v == Get(q, key)
    IN  \/ key \in {"birthdate", "date"} /\ v \in BadDateValues
        \/ key = "active" /\ v \in BadActives
        \/ key = "_count" /\ (v \in NonNumericCounts \/
                              \E c \in DecimalCounts : c.range = "low" /\ v = c.text)
        \/ key = "_offset" /\ v \in BadOffsets

\* the fields of the parameters that a key decides
FieldsOf(p, key) ==
    IF key = "birthdate" THEN <<p.BirthDate, p.BirthDateGreaterThan, p.BirthDateLessThan>>
    ELSE IF key = "date" THEN <<p.DateGreaterThan, p.DateLessThan>>
    ELSE IF key = "active" THEN <<p.Active>>
    ELSE IF key = "_count" THEN <<p.Limit>>
    ELSE <<p.Offset>>

PatientDefaults ==
    [Name |-> <<>>, FamilyName |-> <<>>, GivenName |-> <<>>, Gender |-> <<>>,
     BirthDate |-> Nil, BirthDateGreaterThan |-> Nil, BirthDateLessThan |-> Nil,
     Active |-> Nil, SortBy |-> <<>>, SortOrder |-> "", Limit |-> 10, Offset |-> 0]

ObservationDefaults ==
    [PatientID |-> <<>>, Code |-> <<>>, Category |-> <<>>, Status |-> <<>>,
     DateGreaterThan |-> Nil, DateLessThan |-> Nil,
     SortBy |-> <<>>, SortOrder |-> "", Limit |-> 10, Offset |-> 0]

\* C3: both parsers return parameters and no error; a value that cannot be
\* parsed leaves its fields as they are without the key; the empty query
\* string gives the defaults.
C3_ParseNeverFails ==
    /\ IsParse => result.params # Nil /\ result.err = Nil
    /\ IsPatientParse =>
         /\ \A key \in {"birthdate", "active", "_count", "_offset"} :
               Unparsable(call.arg, key) =>
                  FieldsOf(Params, key) =
                  FieldsOf(ParsePatientSearchParams(WithoutKey(call.arg, key)).params[1], key)
         /\ call.arg = <<>> => Params = PatientDefaults
    /\ IsObservationParse =>
         /\ \A key \in {"date", "_count", "_offset"} :
               Unparsable(call.arg, key) =>
                  FieldsOf(Params, key) =
                  FieldsOf(ParseObservationSearchParams(WithoutKey(call.arg, key)).params[1], key)
         /\ call.arg = <<>> => Params = ObservationDefaults

\* a query with an active that is no boolean has been parsed
C3_Witness ==
    /\ IsPatientParse
    /\ Unparsable(call.arg, "active")
    /\ Unparsable(call.arg, "birthdate")
    /\ Params.Active = Nil
    /\ AllBirthdateAbsent(Params)

\* C4: the Observation parser sets DateGreaterThan only for a date with
\* prefix ge or gt and DateLessThan only for prefix le or lt; a date with
\* prefix eq or without prefix sets neither filter.
C4_ExactDateSetsNoFilter ==
    IsObservationParse =>
        LET v == Get(call.arg, "date")
        IN  /\ Params.DateGreaterThan # Nil =>
                  HasPrefix(v, <<"g","e">>) \/ HasPrefix(v, <<"g","t">>)
            /\ Params.DateLessThan # Nil =>
                  HasPrefix(v, <<"l","e">>) \/ HasPrefix(v, <<"l","t">>)
            /\ \A g \in GoodDateInputs :
                  (v = g.prefix \o g.text /\ g.prefix \in { <<"e","q">>, <<>> }) =>
                     Params.DateGreaterThan = Nil /\ Params.DateLessThan = Nil

\* an exact date that parses has been given and no filter was set
C4_Witness ==
    /\ IsObservationParse
    /\ Get(call.arg, "date") = FormatLayoutDate(Date(1990, 1, 1))
    /\ Params.DateGreaterThan = Nil
    /\ Params.DateLessThan = Nil


(***************************************************************************)
(* Properties of the Patient mapper.                                       *)
(***************************************************************************)
IsPatientToFHIR == call.op = "PatientToFHIR"

IsPatientFromFHIR == call.op = "PatientFromFHIR"

IsCalendarDate(t) == t.hour = 0 /\ t.min = 0 /\ t.sec = 0 /\ t.frac = <<>>

\* the domain Patients of the round trip: a gender of the enumeration, a
\* full identifier and a birth date that is a calendar date (when there is one)
FullPatient(patient) ==
    /\ patient.Gender \in {"male", "female", "other", "unknown"}
    /\ patient.IdentifierSystem # "" /\ patient.IdentifierValue # ""
    /\ patient.BirthDate # Nil => IsCalendarDate(patient.BirthDate[1])

\* C5: FromFHIR(ToFHIR(p)) has the ID, Active, FamilyName, GivenName, Gender,
\* BirthDate, IdentifierSystem and IdentifierValue of p, for every domain
\* Patient p with a gender of the enumeration, a full identifier and a
\* calendar birth date.
C5_DomainRoundTrip ==
    (IsPatientToFHIR /\ FullPatient(call.arg)) =>
        LET back == PatientFromFHIR(result)
        IN  /\ back.ID = call.arg.ID
            /\ back.Active = call.arg.Active
            /\ back.FamilyName = call.arg.FamilyName
            /\ back.GivenName = call.arg.GivenName
            /\ back.Gender = call.arg.Gender
            /\ back.BirthDate = call.arg.BirthDate
            /\ back.IdentifierSystem = call.arg.IdentifierSystem
            /\ back.IdentifierValue = call.arg.IdentifierValue

\* a full Patient with a birth date has been mapped to the wire
C5_Witness ==
    /\ IsPatientToFHIR
    /\ FullPatient(call.arg)
    /\ call.arg.BirthDate = Some(Date(1990, 3, 5))
    /\ call.arg.Gender = "other"
    /\ result.BirthDate = Some(<<"1","9","9","0","-","0","3","-","0","5">>)

\* a wire Patient in canonical form: at most one name entry with at most one
\* given name, at most one identifier
CanonicalWire(fhirPatient) ==
    /\ Len(fhirPatient.Name) <= 1
    /\ \A i \in 1..Len(fhirPatient.Name) : Len(fhirPatient.Name[i].Given) <= 1
    /\ Len(fhirPatient.Identifier) <= 1

\* C6: with f(w) = ToFHIR(FromFHIR(w)), f(f(w)) = f(w) for every canonical
\* wire Patient w, also when id, active, gender, birthDate, name or
\* identifier is absent.
C6_WireRoundTripIdempotent ==
    (IsPatientFromFHIR /\ CanonicalWire(call.arg)) =>
        LET once  == PatientToFHIR(result)
            twice == PatientToFHIR(PatientFromFHIR(once))
        IN  twice = once

\* a canonical wire Patient with absent fields and a gender has been mapped
C6_Witness ==
    /\ IsPatientFromFHIR
    /\ CanonicalWire(call.arg)
    /\ call.arg.Id = Nil /\ call.arg.Active = Nil /\ call.arg.Name = <<>>
    /\ call.arg.Gender = Some(AdministrativeGenderMale)
    /\ call.arg.BirthDate # Nil
    /\ result.Gender = "male"

\* C7, as claimed: every wire gender other than male, female and other maps
\* to the domain value unknown, and ToFHIR emits the wire gender unknown for
\* every domain gender that is not male, female or other, the empty string
\* included.
C7_GenderCollapsesForAllStrings ==
    /\ (IsPatientFromFHIR /\ call.arg.Gender # Nil
          /\ call.arg.Gender[1] \notin {"male", "female", "other"}) =>
            result.Gender = "unknown"
    /\ (IsPatientToFHIR /\ call.arg.Gender \notin {"male", "female", "other"}) =>
            result.Gender = Some(AdministrativeGenderUnknown)

\* C7, amended: every wire gender other than male, female and other maps to
\* the domain value unknown; ToFHIR emits the wire gender unknown for every
\* non-empty domain gender that is not male, female or other, and emits no
\* gender for the empty string.
C7_GenderCollapses ==
    /\ (IsPatientFromFHIR /\ call.arg.Gender # Nil
          /\ call.arg.Gender[1] \notin {"male", "female", "other"}) =>
            result.Gender = "unknown"
    /\ (IsPatientToFHIR /\ call.arg.Gender \notin {"male", "female", "other"}) =>
            IF call.arg.Gender = ""
            THEN result.Gender = Nil
            ELSE result.Gender = Some(AdministrativeGenderUnknown)

\* a domain gender outside the enumeration has been mapped to the wire
C7_Witness ==
    /\ IsPatientToFHIR
    /\ call.arg.Gender = "invalid"
    /\ result.Gender = Some(AdministrativeGenderUnknown)

\* C8: ToFHIR emits an identifier entry exactly when IdentifierSystem and
\* IdentifierValue are both non-empty; the entry carries both, and there is
\* no entry at all when either is empty.
C8_IdentifierNeedsBothParts ==
    IsPatientToFHIR =>
        /\ result.Identifier # <<>> <=>
              (call.arg.IdentifierSystem # "" /\ call.arg.IdentifierValue # "")
        /\ result.Identifier # <<>> =>
              /\ Len(result.Identifier) = 1
              /\ result.Identifier[1].System = Some(call.arg.IdentifierSystem)
              /\ result.Identifier[1].Value = Some(call.arg.IdentifierValue)

\* a Patient with only the system of an identifier has been mapped
C8_Witness ==
    /\ IsPatientToFHIR
    /\ call.arg.IdentifierSystem # ""
    /\ call.arg.IdentifierValue = ""
    /\ result.Identifier = <<>>


(***************************************************************************)
(* Properties of the Observation mapper.                                   *)
(***************************************************************************)
IsObservationFromFHIR == call.op = "ObservationFromFHIR"

\* C9: FromFHIR gives the domain status registered, preliminary, final or
\* amended for the wire status of the same name and final for every other
\* wire status, so the domain status is always one of the four.
C9_StatusCollapsesToFinal ==
    IsObservationFromFHIR =>
        /\ call.arg.Status = ObservationStatusRegistered => result.Status = "registered"
        /\ call.arg.Status = ObservationStatusPreliminary => result.Status = "preliminary"
        /\ call.arg.Status = ObservationStatusFinal => result.Status = "final"
        /\ call.arg.Status = ObservationStatusAmended => result.Status = "amended"
        /\ call.arg.Status \in OtherObservationStatuses => result.Status = "final"
        /\ result.Status \in {"registered", "preliminary", "final", "amended"}

\* a wire status that the mapper does not name has been mapped
C9_Witness ==
    /\ IsObservationFromFHIR
    /\ call.arg.Status = "cancelled"
    /\ result.Status = "final"


(***************************************************************************)
(* Properties of the Patient service.                                      *)
(***************************************************************************)
IsCreatePatient == call.op = "CreatePatient"

\* C10: the record that CreatePatient hands to the repository's Create has
\* Active true when the wire active is absent or true, and Active false only
\* when the wire active is present and false.
C10_CreateDefaultsActive ==
    IsCreatePatient =>
        /\ Len(repoLog) = 1
        /\ repoLog[1].op = "Create"
        /\ call.arg.Active \in {Nil, Some(TRUE)} => repoLog[1].patient.Active = TRUE
        /\ repoLog[1].patient.Active = FALSE => call.arg.Active = Some(FALSE)

\* a wire Patient without active has been created and stored as active
C10_Witness ==
    /\ IsCreatePatient
    /\ call.arg.Active = Nil
    /\ result.err = Nil
    /\ Len(repoLog) = 1 /\ repoLog[1].patient.Active = TRUE
    /\ patients[Len(patients)].Active = TRUE

\* C18: after FromFHIR the record has at most one of ValueQuantity and
\* ValueString populated, and so has each of its components, also when the
\* wire input carries both valueQuantity and valueString.
C18_OneValuePerRecord ==
    IsObservationFromFHIR =>
        /\ ~(result.ValueQuantity # Nil /\ result.ValueString # "")
        /\ \A i \in 1..Len(result.Components) :
              ~(result.Components[i].ValueQuantity # Nil
                  /\ result.Components[i].ValueString # "")

\* an Observation and a component of it, both with a quantity and a string,
\* have been mapped
C18_Witness ==
    /\ IsObservationFromFHIR
    /\ call.arg.ValueQuantity # Nil /\ call.arg.ValueQuantity[1].Value # Nil
    /\ call.arg.ValueString # Nil
    /\ result.ValueQuantity # Nil /\ result.ValueString = ""
    /\ Len(call.arg.Component) > 0
    /\ call.arg.Component[1].ValueQuantity # Nil /\ call.arg.Component[1].ValueString # Nil
    /\ result.Components[1].ValueQuantity # Nil /\ result.Components[1].ValueString = ""

(***************************************************************************)
(* Properties of the Patient repository's Search.                          *)
(***************************************************************************)
IsPatientSearch == call.op = "PatientRepository.Search" /\ result.err = Nil

\* v occurs in text
Contains(text, v) ==
    \E i \in 0..(Len(text) - Len(v)) : SubSeq(text, i + 1, i + Len(v)) = v

\* v occurs in text when the case of the letters is ignored
ContainsFold(text, v) == Contains(ToLower(text), ToLower(v))

\* the stored patient satisfies every present filter
SatisfiesFilters(row, searchParams) ==
    /\ searchParams.Name # <<>> =>
          ContainsFold(row.GivenName, searchParams.Name)
            \/ ContainsFold(row.FamilyName, searchParams.Name)
    /\ searchParams.FamilyName # <<>> => ContainsFold(row.FamilyName, searchParams.FamilyName)
    /\ searchParams.GivenName # <<>> => ContainsFold(row.GivenName, searchParams.GivenName)
    /\ searchParams.Gender # <<>> => row.Gender = searchParams.Gender
    /\ searchParams.BirthDate # Nil => row.BirthDate = searchParams.BirthDate
    /\ searchParams.BirthDateGreaterThan # Nil =>
          row.BirthDate # Nil /\ TimeLeq(searchParams.BirthDateGreaterThan[1], row.BirthDate[1])
    /\ searchParams.BirthDateLessThan # Nil =>
          row.BirthDate # Nil /\ TimeLeq(row.BirthDate[1], searchParams.BirthDateLessThan[1])
    /\ searchParams.Active # Nil => row.Active = searchParams.Active[1]

OnlyNameSet(searchParams) ==
    /\ searchParams.Name # <<>>
    /\ searchParams.FamilyName = <<>> /\ searchParams.GivenName = <<>>
    /\ searchParams.Gender = <<>> /\ searchParams.BirthDate = Nil
    /\ searchParams.BirthDateGreaterThan = Nil /\ searchParams.BirthDateLessThan = Nil
    /\ searchParams.Active = Nil

NoFilterSet(searchParams) ==
    /\ searchParams.Name = <<>>
    /\ searchParams.FamilyName = <<>> /\ searchParams.GivenName = <<>>
    /\ searchParams.Gender = <<>> /\ searchParams.BirthDate = Nil
    /\ searchParams.BirthDateGreaterThan = Nil /\ searchParams.BirthDateLessThan = Nil
    /\ searchParams.Active = Nil

\* the ids of the stored patients that satisfy the filters
MatchingIDs(searchParams) ==
    { patients[i].ID : i \in { k \in 1..Len(patients) :
                                  SatisfiesFilters(patients[k], searchParams) } }

ReturnedIDs == { result.value[1][i].ID : i \in 1..Len(result.value[1]) }

\* C11: with only Name set to a non-empty v, Search returns, up to Limit,
\* exactly the stored patients whose given or family name contains v when
\* the case of the letters is ignored, and never a patient neither of whose
\* names contains v -- for every string v.
C11_NameIsSubstringMatch ==
    (IsPatientSearch /\ OnlyNameSet(call.arg)) =>
        /\ ReturnedIDs \subseteq MatchingIDs(call.arg)
        /\ (call.arg.Offset = 0 /\ call.arg.Limit >= Cardinality(MatchingIDs(call.arg))) =>
              ReturnedIDs = MatchingIDs(call.arg)

\* C12: every patient returned by Search satisfies all present filters at
\* once (birth-date bounds inclusive); every stored patient satisfying them
\* is returned when Offset is 0 and Limit is at least the number of matches;
\* with no filter all stored patients are returned.
C12_FiltersAreConjoined ==
    IsPatientSearch =>
        /\ ReturnedIDs \subseteq MatchingIDs(call.arg)
        /\ (call.arg.Offset = 0 /\ call.arg.Limit >= Cardinality(MatchingIDs(call.arg))) =>
              ReturnedIDs = MatchingIDs(call.arg)
        /\ (NoFilterSet(call.arg) /\ call.arg.Offset = 0 /\ call.arg.Limit >= Len(patients)) =>
              ReturnedIDs = { patients[i].ID : i \in 1..Len(patients) }

\* C13: the ORDER BY column of the compiled query is family_name for SortBy
\* name, birth_date for SortBy birthdate, SortBy itself for family_name,
\* given_name, gender and created_at, and created_at for an empty or any
\* other SortBy; the direction is ascending exactly when SortOrder is asc.
C13_SortColumnAndDirection ==
    call.op = "PatientRepository.Search" =>
        LET query == dbLog[1].sql
            sortBy == call.arg.SortBy
        IN  /\ Len(dbLog) = 1
            /\ sortBy = <<"n","a","m","e">> => query.orderBy = <<"f","a","m","i","l","y","_","n","a","m","e">>
            /\ sortBy = <<"b","i","r","t","h","d","a","t","e">> => query.orderBy = <<"b","i","r","t","h","_","d","a","t","e">>
            /\ sortBy \in { <<"f","a","m","i","l","y","_","n","a","m","e">>, <<"g","i","v","e","n","_","n","a","m","e">>, <<"g","e","n","d","e","r">>, <<"c","r","e","a","t","e","d","_","a","t">> } =>
                  query.orderBy = sortBy
            /\ sortBy \notin { <<"n","a","m","e">>, <<"b","i","r","t","h","d","a","t","e">>, <<"f","a","m","i","l","y","_","n","a","m","e">>, <<"g","i","v","e","n","_","n","a","m","e">>,
                               <<"g","e","n","d","e","r">>, <<"c","r","e","a","t","e","d","_","a","t">> } =>
                  query.orderBy = <<"c","r","e","a","t","e","d","_","a","t">>
            /\ query.direction = "ASC" <=> call.arg.SortOrder = "asc"
            /\ query.direction \in {"ASC", "DESC"}

\* a search sorted by name in an order other than asc has been compiled and
\* has returned the patients by descending family name
C13_Witness ==
    /\ IsPatientSearch
    /\ call.arg.SortBy = <<"n","a","m","e">> /\ call.arg.SortOrder = ""
    /\ dbLog[1].sql.orderBy = <<"f","a","m","i","l","y","_","n","a","m","e">> /\ dbLog[1].sql.direction = "DESC"
    /\ Len(result.value[1]) = 2
    /\ TextLess(result.value[1][2].FamilyName, result.value[1][1].FamilyName)

(***************************************************************************)
(* Properties of the Observation repository's Search.                      *)
(***************************************************************************)
IsObservationSearch == call.op = "ObservationRepository.Search"

\* C14: Search writes DateGreaterThan as $gte and DateLessThan as $lte into
\* one sub-filter on effective_date; with both set the sub-filter holds both,
\* and an observation is returned only if its effective date d satisfies
\* DateGreaterThan <= d <= DateLessThan.
C14_DateRangeInOneSubFilter ==
    IsObservationSearch =>
        LET filter == dbLog[1].filter
            lower  == call.arg.DateGreaterThan
            upper  == call.arg.DateLessThan
        IN  /\ Len(dbLog) = 1
            /\ "effective_date" \in DOMAIN filter <=> (lower # Nil \/ upper # Nil)
            /\ "effective_date" \in DOMAIN filter =>
                  /\ "$gte" \in DOMAIN filter["effective_date"] <=> lower # Nil
                  /\ "$lte" \in DOMAIN filter["effective_date"] <=> upper # Nil
                  /\ lower # Nil => filter["effective_date"]["$gte"] = lower
                  /\ upper # Nil => filter["effective_date"]["$lte"] = upper
            /\ (result.err = Nil /\ lower # Nil /\ upper # Nil) =>
                  \A i \in 1..Len(result.value[1]) :
                      LET d == result.value[1][i].EffectiveDate
                      IN  d # Nil /\ TimeLeq(lower[1], d[1]) /\ TimeLeq(d[1], upper[1])

\* a search with both bounds has returned an observation dated on the lower
\* bound and left out one dated after the upper bound
C14_Witness ==
    /\ IsObservationSearch /\ result.err = Nil
    /\ call.arg.DateGreaterThan = Some(DateTime(2024, 1, 15, 10, 30, 0))
    /\ call.arg.DateLessThan = Some(DateTime(2024, 1, 15, 10, 30, 0))
    /\ call.arg.PatientID = <<>> /\ call.arg.Code = <<>>
    /\ call.arg.Category = <<>> /\ call.arg.Status = <<>>
    /\ Len(observations) = 2
    /\ Len(result.value[1]) = 1
    /\ result.value[1][1].EffectiveDate = call.arg.DateGreaterThan

(***************************************************************************)
(* Properties of the services over the two repositories.                   *)
(***************************************************************************)
PatientServiceOps ==
    { "CreatePatient", "GetPatientByID", "GetAllPatients", "UpdatePatient",
      "SearchPatients", "DeletePatient" }

ObservationServiceOps ==
    { "CreateObservation", "GetObservationByID", "GetObservationsByPatientID",
      "GetAllObservations", "UpdateObservation", "SearchObservations",
      "DeleteObservation" }

IsPatientServiceCall == call.op \in PatientServiceOps

IsObservationServiceCall == call.op \in ObservationServiceOps

\* the call made one call of the repository and that one call of the
\* storage; when the storage failed with e, the repository and the service
\* returned e itself and no value
OneCallErrorUnmodified ==
    /\ Len(repoLog) = 1
    /\ Len(dbLog) = 1
    /\ dbLog[1].err # Nil =>
          /\ repoLog[1].err = dbLog[1].err /\ repoLog[1].value = Nil
          /\ result.err = dbLog[1].err /\ result.value = Nil

\* C15: for every repository and service operation of both resource kinds,
\* when the storage call fails with error e the caller receives exactly e,
\* unmodified, with a nil result, and the operation has made exactly one
\* storage/repository call whether it succeeded or failed.
C15_StorageErrorUnmodified ==
    (IsPatientServiceCall \/ IsObservationServiceCall) => OneCallErrorUnmodified

\* the one storage call of the operation failed with an error of the driver
IsStorageFault ==
    Len(dbLog) = 1 /\ dbLog[1].err # Nil /\ dbLog[1].err[1] \in StorageErrors

\* C16: GetByID on an id that has no stored record returns a not-found
\* outcome (sql.ErrNoRows from the Patient repository, "observation not
\* found" from the Observation repository) and no record, and GetByID never
\* returns that outcome for a failure of the connection or the query or for
\* a malformed id.
C16_NotFoundIsDistinct ==
    /\ call.op = "GetPatientByID" =>
          /\ Len(repoLog) = 1 /\ repoLog[1].op = "GetByID"
          /\ (~IsStorageFault /\ IsUUID(call.arg) /\ RowsWithID(patients, call.arg) = {}) =>
                repoLog[1].err = Some(ErrNoRows) /\ repoLog[1].value = Nil
          /\ (IsStorageFault \/ ~IsUUID(call.arg)) =>
                repoLog[1].err # Nil /\ repoLog[1].err # Some(ErrNoRows)
    /\ call.op = "GetObservationByID" =>
          /\ Len(repoLog) = 1 /\ repoLog[1].op = "GetByID"
          /\ (/\ ~IsStorageFault
              /\ ObjectIDFromHex(call.arg) # Nil
              /\ DocumentsWithID(observations, ObjectIDFromHex(call.arg)[1]) = {}) =>
                repoLog[1].err = Some(ObservationNotFound) /\ repoLog[1].value = Nil
          /\ (IsStorageFault \/ ObjectIDFromHex(call.arg) = Nil) =>
                repoLog[1].err # Nil /\ repoLog[1].err # Some(ObservationNotFound)

\* GetByID has looked in a store that holds observations for a well-formed
\* id that none of them has, and has answered not found
C16_Witness ==
    /\ call.op = "GetObservationByID"
    /\ observations # <<>>
    /\ ObjectIDFromHex(call.arg) # Nil
    /\ Len(dbLog) = 1 /\ dbLog[1].err = Some(ErrNoDocuments)
    /\ repoLog[1].err = Some(ObservationNotFound)
    /\ result.err = Some(ObservationNotFound)

\* the ids of the records in an answer of a listing or a search
AnswerIDs(answer) == { answer[i].ID : i \in 1..Len(answer) }

\* a record without the field that Update does not write
WithoutCreatedAt(record) == [record EXCEPT !.CreatedAt = 0]

\* the Patient repository: a created record is read back by its id, an
\* updated record is read back with the values of the update, and a deleted
\* id is read back by no lookup, listing or search
PatientLifecycle ==
    /\ (call.op = "CreatePatient" /\ result.err = Nil) =>
          LET created == repoLog[1].value[1]
          IN  PatientRepositoryGetByID(patients, created.ID, Nil).value = Some(created)
    /\ (call.op = "UpdatePatient" /\ result.err = Nil) =>
          LET updated == repoLog[1].value[1]
              got     == PatientRepositoryGetByID(patients, updated.ID, Nil)
          IN  got.err = Nil /\ WithoutCreatedAt(got.value[1]) = WithoutCreatedAt(updated)
    /\ (call.op = "DeletePatient" /\ result.err = Nil) =>
          /\ PatientRepositoryGetByID(patients, call.arg, Nil).err # Nil
          /\ \A page \in ListPages :
                \A answer \in PgSelect(patients, PatientGetAllQuery(page[1], page[2])) :
                    call.arg \notin AnswerIDs(answer)
          /\ \A searchParams \in ServicePatientSearches :
                \A answer \in PgSelect(patients, PatientSearchQuery(searchParams)) :
                    call.arg \notin AnswerIDs(answer)

\* the same for the Observation repository
ObservationLifecycle ==
    /\ (call.op = "CreateObservation" /\ result.err = Nil) =>
          LET created == repoLog[1].value[1]
          IN  ObservationRepositoryGetByID(observations, created.ID, Nil).value = Some(created)
    /\ (call.op = "UpdateObservation" /\ result.err = Nil) =>
          LET updated == repoLog[1].value[1]
              got     == ObservationRepositoryGetByID(observations, updated.ID, Nil)
          IN  got.err = Nil /\ WithoutCreatedAt(got.value[1]) = WithoutCreatedAt(updated)
    /\ (call.op = "DeleteObservation" /\ result.err = Nil) =>
          /\ ObservationRepositoryGetByID(observations, call.arg, Nil).err # Nil
          /\ \A page \in ListPages :
                \A answer \in MongoFind(observations, EmptyM,
                                        ListFindOptions(page[1], page[2])) :
                    call.arg \notin AnswerIDs([i \in 1..Len(answer) |->
                                                  DecodeObservation(answer[i])])
          /\ \A searchParams \in ServiceObservationSearches :
                \A answer \in MongoFind(observations, ObservationSearchFilter(searchParams),
                                        ObservationFindOptions(searchParams)) :
                    call.arg \notin AnswerIDs([i \in 1..Len(answer) |->
                                                  DecodeObservation(answer[i])])

\* C19: on either repository, after a successful Create that returned id,
\* GetByID(id) returns that record, with the values of the latest successful
\* Update, until a Delete(id) succeeds; after a successful Delete(id),
\* GetByID(id) returns an error and no Search or GetAll answer holds the
\* record.
C19_CreatedUntilDeleted == PatientLifecycle /\ ObservationLifecycle

\* C20: for every wire input to CreatePatient and CreateObservation, also
\* one that carries its own id, the id of the created record is the one
\* that the storage assigned, and a get-by-id with the id that the create
\* returned retrieves exactly the created record.
C20_CreatedIDAssignedByStorage ==
    /\ (call.op = "CreatePatient" /\ result.err = Nil) =>
          /\ result.value[1].Id = Some(PatientRowID(issued.patients))
          /\ GetPatientByID(patients, result.value[1].Id[1], Nil).value = result.value
    /\ (call.op = "CreateObservation" /\ result.err = Nil) =>
          /\ result.value[1].Id = Some(ObjectIDHex(NewObjectID(issued.observations)))
          /\ GetObservationByID(observations, result.value[1].Id[1], Nil).value = result.value

(***************************************************************************)
(* Properties of the handlers.                                             *)
(***************************************************************************)
HandlerOps ==
    { "PatientHandler.Create", "PatientHandler.GetByID", "PatientHandler.GetAll",
      "PatientHandler.Update", "PatientHandler.Delete",
      "ObservationHandler.Create", "ObservationHandler.GetByID",
      "ObservationHandler.GetAll" }

IsHandlerCall == call.op \in HandlerOps

\* the body of the request is not the JSON of the resource
IsInvalidJSON ==
    \/ call.op \in { "PatientHandler.Create", "ObservationHandler.Create" } /\ call.arg = Nil
    \/ call.op = "PatientHandler.Update" /\ call.arg[1] # <<>> /\ call.arg[2] = Nil

\* the service reported that the record is missing
IsMissingRecord ==
    /\ Len(repoLog) = 1
    /\ repoLog[1].err \in { Some(ErrNoRows), Some(ObservationNotFound) }

\* C17: on every handler endpoint the response status follows the failure
\* kind: a missing record gives 404, a request body that is not valid JSON
\* gives 400, and a storage failure other than a missing record, reported by
\* the service, gives 500.
C17_StatusFollowsFailureKind ==
    IsHandlerCall =>
        /\ IsInvalidJSON => result.status = StatusBadRequest
        /\ IsMissingRecord => result.status = StatusNotFound
        /\ IsStorageFault => result.status = StatusInternalServerError

\* C22: in FromFHIR, whenever the wire resource or a component carries a
\* valueQuantity, the domain ValueString stays empty, whether the quantity
\* has a number, has none, or has one that does not parse.
C22_QuantityHidesString ==
    IsObservationFromFHIR =>
        /\ call.arg.ValueQuantity # Nil => result.ValueString = ""
        /\ \A i \in 1..Len(call.arg.Component) :
              call.arg.Component[i].ValueQuantity # Nil =>
                  result.Components[i].ValueString = ""

IsObservationToFHIR == call.op = "ObservationToFHIR"

\* C25: ToFHIR emits the wire status registered, preliminary, final or
\* amended for the same domain status string, and final for every other
\* domain status string, the empty one included.
C25_StatusToFHIRDefaultsToFinal ==
    IsObservationToFHIR =>
        result.Status = IF call.arg.Status \in { "registered", "preliminary", "final", "amended" }
                        THEN call.arg.Status
                        ELSE ObservationStatusFinal

\* C29: every wire Patient accepted by validatePatient maps through FromFHIR
\* to a domain record in which FamilyName or GivenName is non-empty, also
\* with several name entries or several given names.
C29_AcceptedPatientHasName ==
    (IsPatientFromFHIR /\ validatePatient(call.arg) = Nil) =>
        (result.FamilyName # "" \/ result.GivenName # "")

\* C27: UpdatePatient applies no active default: the record handed to the
\* repository's Update has Active = TRUE exactly when the wire input has
\* active present and true, and a successful update stores that value
\* whatever the stored value was before.
C27_UpdateAppliesNoActiveDefault ==
    [][(call = NoCall /\ call'.op = "UpdatePatient") =>
          /\ Len(repoLog') = 1
          /\ repoLog'[1].op = "Update"
          /\ repoLog'[1].arg.Active = (call'.arg[2].Active = Some(TRUE))
          /\ result'.err = Nil =>
                /\ \E i \in 1..Len(patients) : patients[i].ID = call'.arg[1]
                /\ \A i \in 1..Len(patients) :
                      patients[i].ID = call'.arg[1] =>
                          patients'[i].Active = (call'.arg[2].Active = Some(TRUE))]_vars

\* an update whose wire input omits active has succeeded and the stored
\* patient is inactive
C27_Witness ==
    /\ call.op = "UpdatePatient"
    /\ call.arg[2].Active = Nil
    /\ result.err = Nil
    /\ Len(repoLog) = 1 /\ repoLog[1].arg.Active = FALSE
    /\ \E i \in 1..Len(patients) : patients[i].ID = call.arg[1] /\ patients[i].Active = FALSE

\* the id that an Update or a Delete of the services is given
PointID(c) == IF c.op \in { "UpdatePatient", "UpdateObservation" } THEN c.arg[1] ELSE c.arg

\* no row of the table, or no document of the collection, has the id
NoPatientWithID(id) == RowsWithID(patients, id) = {}

NoObservationWithID(id) ==
    \A i \in 1..Len(observations) : DecodeObservation(observations[i]).ID # id

\* a step in which an Update or a Delete among ops is called on an id
\* without a stored record returns an error with the store as it was
MissingRecordStep(ops) ==
    (/\ call = NoCall
     /\ call'.op \in ops
     /\ IF call'.op \in { "UpdatePatient", "DeletePatient" }
        THEN NoPatientWithID(PointID(call'))
        ELSE NoObservationWithID(PointID(call')))
    => /\ result'.err # Nil
       /\ patients' = patients
       /\ observations' = observations

\* C26: Update and Delete on an id that has no stored record return an
\* error and leave the store unchanged, in the Observation repository and
\* in the Patient repository.
C26_MissingRecordIsAnError ==
    [][MissingRecordStep({ "UpdatePatient", "DeletePatient",
                           "UpdateObservation", "DeleteObservation" })]_vars

PatientStringFilters == { "name", "family", "given", "gender" }

ObservationStringFilters == { "patient", "code", "category", "status" }

\* the key is in the query and its first value is empty
SetToEmpty(q, key) == Has(q, key) /\ Get(q, key) = <<>>

\* C24: for each string filter, the SearchParameters and the compiled query
\* obtained when the filter is set to the empty value differ from those
\* obtained when the filter is not set.
C24_UnsetDiffersFromEmpty ==
    /\ IsPatientParse =>
          \A key \in PatientStringFilters :
              SetToEmpty(call.arg, key) =>
                  LET unset == ParsePatientSearchParams(WithoutKey(call.arg, key))
                  IN  /\ result.params # unset.params
                      /\ PatientSearchQuery(Params) # PatientSearchQuery(unset.params[1])
    /\ IsObservationParse =>
          \A key \in ObservationStringFilters :
              SetToEmpty(call.arg, key) =>
                  LET unset == ParseObservationSearchParams(WithoutKey(call.arg, key))
                  IN  /\ result.params # unset.params
                      /\ ObservationSearchFilter(Params) #
                            ObservationSearchFilter(unset.params[1])

\* the text of the statement: the conditions with their placeholder
\* numbers, the ORDER BY column and direction, the LIMIT and OFFSET
\* placeholders
SqlText(query) ==
    [where |-> query.where, orderBy |-> query.orderBy, direction |-> query.direction,
     limit |-> query.limit, offset |-> query.offset]

PatientFilterFields ==
    { "Name", "FamilyName", "GivenName", "Gender", "BirthDate", "BirthDateGreaterThan",
      "BirthDateLessThan", "Active" }

\* the filters that are present; an absent filter is the empty string or nil
PresentFilters(searchParams) == { f \in PatientFilterFields : searchParams[f] # <<>> }

SqlConditions ==
    { SqlName, SqlFamilyName, SqlGivenName, SqlGender, SqlBirthDate, SqlBirthDateGreaterThan,
      SqlBirthDateLessThan, SqlActive }

AllowedSortColumns ==
    { <<"c","r","e","a","t","e","d","_","a","t">>, <<"f","a","m","i","l","y","_","n","a","m","e">>, <<"g","i","v","e","n","_","n","a","m","e">>, <<"b","i","r","t","h","_","d","a","t","e">>, <<"g","e","n","d","e","r">> }

\* the filter value that belongs to a condition
ConditionValue(sql, searchParams) ==
    IF sql = SqlName THEN LikeParameter(searchParams.Name)
    ELSE IF sql = SqlFamilyName THEN LikeParameter(searchParams.FamilyName)
    ELSE IF sql = SqlGivenName THEN LikeParameter(searchParams.GivenName)
    ELSE IF sql = SqlGender THEN searchParams.Gender
    ELSE IF sql = SqlBirthDate THEN searchParams.BirthDate
    ELSE IF sql = SqlBirthDateGreaterThan THEN searchParams.BirthDateGreaterThan
    ELSE IF sql = SqlBirthDateLessThan THEN searchParams.BirthDateLessThan
    ELSE searchParams.Active

IsPatientSearchCall == call.op = "PatientRepository.Search"

\* C28: the SQL text of Search is the same for any two SearchParameters with
\* the same present filters and the same resolved sort column and direction;
\* the ORDER BY column is one of created_at, family_name, given_name,
\* birth_date, gender; every filter value, the limit and the offset are
\* bound parameters whose placeholder number is their position in the
\* parameter list.
C28_SqlTextIndependentOfValues ==
    IsPatientSearchCall =>
        LET query == dbLog[1].sql
            args  == dbLog[1].args
        IN  /\ \A other \in PatientSearches :
                  (/\ PresentFilters(other) = PresentFilters(call.arg)
                   /\ PatientSortColumn(other) = query.orderBy
                   /\ PatientSortOrder(other) = query.direction)
                  => SqlText(PatientSearchQuery(other)) = SqlText(query)
            /\ query.orderBy \in AllowedSortColumns
            /\ query.direction \in { "ASC", "DESC" }
            /\ Len(query.where) = Cardinality(PresentFilters(call.arg))
            /\ \A k \in 1..Len(query.where) :
                  /\ query.where[k].sql \in SqlConditions
                  /\ query.where[k].index = k
                  /\ args[k] = ConditionValue(query.where[k].sql, call.arg)
            /\ Len(args) = Len(query.where) + 2
            /\ query.limit = Len(query.where) + 1 /\ args[query.limit] = call.arg.Limit
            /\ query.offset = Len(query.where) + 2 /\ args[query.offset] = call.arg.Offset

\* a search with filters whose values hold characters that LIKE or SQL give
\* a meaning, and a search sorted by a field outside the allowlist, have
\* been compiled
C28_Witness ==
    /\ IsPatientSearchCall
    /\ \/ /\ call.arg.Name \in { <<"%">>, <<"_">>, <<"\\">> }
          /\ Len(dbLog[1].sql.where) = 1
       \/ /\ call.arg.SortBy = <<"i","d">>
          /\ dbLog[1].sql.orderBy = <<"c","r","e","a","t","e","d","_","a","t">>

\* the parameters of the page before: the same search from Offset 0
FirstPage(searchParams) == [searchParams EXCEPT !.Offset = 0]

\* no record of one page has the id of a record of the other
DisjointPages(first, second) ==
    \A i \in 1..Len(first), j \in 1..Len(second) : first[i].ID # second[j].ID

\* the page answered to Search with (Limit L, Offset L) has at most L
\* patients and shares none with any page that the database may answer to
\* the same Search with (Limit L, Offset 0) on the same table
PatientPagesAreDisjoint ==
    (IsPatientSearch /\ call.arg.Offset = call.arg.Limit) =>
        /\ Len(result.value[1]) <= call.arg.Limit
        /\ \A first \in PgSelect(patients, PatientSearchQuery(FirstPage(call.arg))) :
              Len(first) <= call.arg.Limit /\ DisjointPages(first, result.value[1])

\* the same for the observations
ObservationPagesAreDisjoint ==
    (IsObservationSearch /\ result.err = Nil /\ call.arg.Offset = call.arg.Limit) =>
        /\ Len(result.value[1]) <= call.arg.Limit
        /\ \A first \in MongoFind(observations, ObservationSearchFilter(FirstPage(call.arg)),
                                  ObservationFindOptions(FirstPage(call.arg))) :
              /\ Len(first) <= call.arg.Limit
              /\ DisjointPages([i \in 1..Len(first) |-> DecodeObservation(first[i])],
                               result.value[1])

\* C23: for a fixed store, filters and sort, Search with (Limit L, Offset 0)
\* and Search with (Limit L, Offset L) each return at most L records and
\* have no record in common, in both repositories and for every sort field,
\* also when stored records share the value of the sort key.
C23_PagesAreDisjoint == PatientPagesAreDisjoint /\ ObservationPagesAreDisjoint

(***************************************************************************)
(* Properties of concurrent Update and Delete calls.                       *)
(***************************************************************************)
\* the concurrent calls that have returned
Returned == { r \in 1..Len(requests) : requests[r].pc = "returned" }

\* the Delete calls that succeeded, and the Update calls that have returned
SucceededDeletes ==
    { r \in Returned : /\ requests[r].op \in { "PatientRepository.Delete",
                                                "ObservationRepository.Delete" }
                       /\ requests[r].err = Nil }

ReturnedUpdates ==
    { r \in Returned : requests[r].op \in { "PatientRepository.Update",
                                            "ObservationRepository.Update" } }

\* the two calls are on the same repository
SameRepository(a, b) == (a.op \in PatientWrites) = (b.op \in PatientWrites)

\* the store of the call holds no record with the id of the call
RecordGone(request) ==
    IF request.op \in PatientWrites
    THEN NoPatientWithID(request.id)
    ELSE NoObservationWithID(request.id)

\* C30: for every interleaving of concurrent Update(id) and Delete(id)
\* calls on a stored record of either kind, once a Delete(id) has succeeded
\* the store holds no record with that id, and every Update(id) whose
\* statement executes after it returns an error.
C30_UpdateNeverRecreates ==
    \A d \in SucceededDeletes :
        /\ RecordGone(requests[d])
        /\ \A u \in ReturnedUpdates :
              ( /\ SameRepository(requests[u], requests[d])
                /\ requests[u].id = requests[d].id
                /\ requests[u].at > requests[d].at ) => requests[u].err # Nil

\* an Update succeeded, then a Delete of the same id, then an Update of the
\* same id returned without a storage fault
C30_Witness ==
    \E d \in SucceededDeletes : \E before, after \in ReturnedUpdates :
        /\ SameRepository(requests[before], requests[d])
        /\ SameRepository(requests[after], requests[d])
        /\ requests[before].id = requests[d].id
        /\ requests[after].id = requests[d].id
        /\ requests[before].at < requests[d].at
        /\ requests[before].err = Nil
        /\ requests[after].at > requests[d].at
        /\ requests[after].err \in { Some(ErrNoRows), Some(ObservationNotFound) }

(***************************************************************************)
(* Properties of concurrent requests.                                      *)
(***************************************************************************)
\* what the request holds is what it computes when it runs alone on its
\* input: the parameters parsed, the query compiled, the record mapped
AsAlone(request) ==
    /\ request.searchParams # Nil =>
          request.searchParams = ParsePatientSearchParams(request.input).params
    /\ request.query # Nil =>
          request.query =
              Some(PatientSearchQuery(ParsePatientSearchParams(request.input).params[1]))
    /\ (request.domain # Nil /\ request.pc = "default") =>
          request.domain = Some(PatientFromFHIR(request.input))
    /\ (request.domain # Nil /\ request.pc = "returned") =>
          request.domain = Some(CreatePatientDomainPatient(request.input))

\* a step writes the variables of one request only, and leaves every
\* request with what it computes alone
IsolatedStep ==
    /\ \A r \in 1..Len(requests) :
          requests'[r] # requests[r] =>
              \A other \in 1..Len(requests) : other # r => requests'[other] = requests[other]
    /\ \A r \in 1..Len(requests') : AsAlone(requests'[r])

====
